---- MODULE Spec2Model ----
(***************************************************************************)
(* Receipt-retrieval dialogue of the WhatsApp chatbot                      *)
(* (services/bot_service.py, routers/websocket.py), the identity           *)
(* validator (services/validation_service.py) and the parts of the        *)
(* receipt and FTP services the dialogue calls.                            *)
(*                                                                         *)
(* Texts are sequences of one-character strings, so that lower(), strip(), *)
(* substring tests, digit filtering and date parsing are computed as the   *)
(* code computes them.                                                     *)
(***************************************************************************)
EXTENDS Integers, Sequences, FiniteSets, TLC

VARIABLES
    conversation_state,   \* WhatsappUser.conversation_state (NULL = None)
    conversation_data,    \* WhatsappUser.conversation_data, decoded JSON (NULL = None)
    is_active,            \* WhatsappUser.is_active
    payment_users,        \* rows of the payment_users table
    ftp_files,            \* remote store: folder -> set of file names
    calls,                \* collaborator calls made by the last handled event, in order
    last,                 \* the last handled event and the row it found
    inflight,             \* overlapping handlers of one phone number (SpecRace)
    base,                 \* row both overlapping handlers started from (SpecRace)
    probe,                \* last application of a pure function and its result
    file_metadata_cache,  \* _file_metadata_cache: folder -> snapshot and its timestamp
    now,                  \* datetime.now(), in minutes
    messages              \* rows of the messages table, in insertion order

vars == <<conversation_state, conversation_data, is_active, payment_users,
          ftp_files, calls, last, inflight, base, probe,
          file_metadata_cache, now, messages>>

NULL == "None"

\* ------------------------------------------------------------------ bounds

\* Resolution of a stored DateTime within one day (2 = midnight and noon).
TicksPerDay == 2
\* datetime.now().year at the time of the run.
CurrentYear == 2026

\* ------------------------------------------------------------------- texts

Digit == {"0", "1", "2", "3", "4", "5", "6", "7", "8", "9"}

DigitVal(c) ==
    CASE c = "0" -> 0 [] c = "1" -> 1 [] c = "2" -> 2 [] c = "3" -> 3
      [] c = "4" -> 4 [] c = "5" -> 5 [] c = "6" -> 6 [] c = "7" -> 7
      [] c = "8" -> 8 [] c = "9" -> 9

DigitChar(n) ==
    CASE n = 0 -> "0" [] n = 1 -> "1" [] n = 2 -> "2" [] n = 3 -> "3"
      [] n = 4 -> "4" [] n = 5 -> "5" [] n = 6 -> "6" [] n = 7 -> "7"
      [] n = 8 -> "8" [] n = 9 -> "9"

\* str.isdigit(): non-empty and every character a digit.
IsDigitStr(s) == Len(s) > 0 /\ \A i \in 1..Len(s) : s[i] \in Digit

\* int(s) for a digit string.
RECURSIVE ToInt(_)
ToInt(s) ==
    IF Len(s) = 0 THEN 0
    ELSE 10 * ToInt(SubSeq(s, 1, Len(s) - 1)) + DigitVal(s[Len(s)])

\* `sub in s` for Python strings.
Contains(s, sub) ==
    \E i \in 0..(Len(s) - Len(sub)) : SubSeq(s, i + 1, i + Len(sub)) = sub

\* str.lower(), on the upper-case letters the modelled inputs use.
LowerChar(c) ==
    CASE c = "M" -> "m" [] c = "E" -> "e" [] c = "N" -> "n" [] c = "U" -> "u"
      [] c = "P" -> "p" [] c = "D" -> "d" [] c = "F" -> "f"
      [] OTHER -> c

Lower(s) == [i \in 1..Len(s) |-> LowerChar(s[i])]

Whitespace == {" "}

\* str.strip(): drop leading and trailing whitespace.
RECURSIVE Strip(_)
Strip(s) ==
    IF Len(s) = 0 THEN s
    ELSE IF s[1] \in Whitespace THEN Strip(Tail(s))
    ELSE IF s[Len(s)] \in Whitespace THEN Strip(SubSeq(s, 1, Len(s) - 1))
    ELSE s

\* str.endswith(suffix)
EndsWith(s, suffix) ==
    /\ Len(s) >= Len(suffix)
    /\ SubSeq(s, Len(s) - Len(suffix) + 1, Len(s)) = suffix

\* ------------------------------------------------------- ValidationService

\* re.sub(r'[^\d]', '', cedula); cedula_clean.isdigit()
validate_cedula_format(cedula) ==
    LET cedula_clean == SelectSeq(cedula, LAMBDA c : c \in Digit)
    IN  IF ~IsDigitStr(cedula_clean)
        THEN [ok |-> FALSE, message |-> "La cedula solo debe contener numeros"]
        ELSE [ok |-> TRUE, message |-> "Cedula valida"]

\* Positions of "/" in a text.
SlashPositions(s) == {i \in 1..Len(s) : s[i] = "/"}

\* re.match(r'^(\d{1,2})/(\d{1,2})/(\d{4})$', date_str): the three groups,
\* or <<>> when the text does not match.
DateMatch(date_str) ==
    LET ps == SlashPositions(date_str)
    IN  IF Cardinality(ps) # 2 THEN <<>>
        ELSE LET p1 == CHOOSE p \in ps : \A q \in ps : p <= q
                 p2 == CHOOSE p \in ps : \A q \in ps : q <= p
                 g1 == SubSeq(date_str, 1, p1 - 1)
                 g2 == SubSeq(date_str, p1 + 1, p2 - 1)
                 g3 == SubSeq(date_str, p2 + 1, Len(date_str))
             IN  IF /\ IsDigitStr(g1) /\ Len(g1) \in 1..2
                    /\ IsDigitStr(g2) /\ Len(g2) \in 1..2
                    /\ IsDigitStr(g3) /\ Len(g3) = 4
                 THEN <<g1, g2, g3>>
                 ELSE <<>>

\* Variant: the Julian rule, every fourth year.
EveryFourthYear(year) == year % 4 = 0

\* year % 4 == 0 and (year % 100 != 0 or year % 400 == 0)
LeapAdjust(year) == year % 4 = 0 /\ (year % 100 # 0 \/ year % 400 = 0)

\* days_in_month, with February adjusted for the year.
days_in_month(month, year) ==
    IF month = 2 /\ LeapAdjust(year) THEN 29
    ELSE <<31, 28, 31, 30, 31, 30, 31, 31, 30, 31, 30, 31>>[month]

\* date.toordinal() of datetime(year, month, day): days since 0001-01-01, plus 1.
RECURSIVE DaysBeforeMonth(_, _)
DaysBeforeMonth(month, year) ==
    IF month = 1 THEN 0
    ELSE DaysBeforeMonth(month - 1, year) + days_in_month(month - 1, year)

ToOrdinal(year, month, day) ==
    LET y == year - 1
    IN  y * 365 + (y \div 4) - (y \div 100) + (y \div 400)
          + DaysBeforeMonth(month, year) + day

\* datetime(year, month, day): midnight of that day, in ticks.
DateTime(year, month, day) == ToOrdinal(year, month, day) * TicksPerDay

validate_date_format(date_str) ==
    LET match == DateMatch(date_str)
    IN  IF match = <<>>
        THEN [ok |-> FALSE, message |-> "El formato debe ser DD/MM/AAAA", date_obj |-> NULL]
        ELSE LET day   == ToInt(match[1])
                 month == ToInt(match[2])
                 year  == ToInt(match[3])
             IN  IF year < 1900 \/ year > CurrentYear
                 THEN [ok |-> FALSE, message |-> "El ano debe estar entre 1900 y el actual",
                       date_obj |-> NULL]
                 ELSE IF month < 1 \/ month > 12
                 THEN [ok |-> FALSE, message |-> "El mes debe estar entre 1 y 12",
                       date_obj |-> NULL]
                 ELSE IF day < 1 \/ day > 31
                 THEN [ok |-> FALSE, message |-> "El dia debe estar entre 1 y 31",
                       date_obj |-> NULL]
                 ELSE IF day > days_in_month(month, year)
                 THEN [ok |-> FALSE, message |-> "El dia no es valido para el mes",
                       date_obj |-> NULL]
                 ELSE [ok |-> TRUE, message |-> "Fecha valida",
                       date_obj |-> DateTime(year, month, day)]

\* db.query(PaymentUser).filter(cedula == c, is_active == True).first()
\* (cedula is a unique column).
ActiveUser(users, cedula) ==
    {u \in users : u.cedula = cedula /\ u.is_active}

Abs(n) == IF n < 0 THEN -n ELSE n

\* timedelta(days=1)
tolerance == 1 * TicksPerDay

\* Variant: the tolerance compared with >=.
validate_user_data_exclusive(users, cedula, expedition_date) ==
    LET found == ActiveUser(users, cedula)
        user  == CHOOSE u \in found : TRUE
    IN  IF found = {}
        THEN [ok |-> FALSE, message |-> "No se encontro un usuario registrado con esa cedula"]
        ELSE IF Abs(user.expedition_date - expedition_date) >= tolerance
        THEN [ok |-> FALSE, message |-> "La fecha de expedicion no coincide"]
        ELSE [ok |-> TRUE, message |-> "Datos validos"]

validate_user_data(users, cedula, expedition_date) ==
    LET found == ActiveUser(users, cedula)
        user  == CHOOSE u \in found : TRUE
    IN  IF found = {}
        THEN [ok |-> FALSE, message |-> "No se encontro un usuario registrado con esa cedula"]
        ELSE IF Abs(user.expedition_date - expedition_date) > tolerance
        THEN [ok |-> FALSE, message |-> "La fecha de expedicion no coincide"]
        ELSE [ok |-> TRUE, message |-> "Datos validos"]

is_cedula_registered(users, cedula) ==
    IF ActiveUser(users, cedula) # {}
    THEN [ok |-> TRUE, message |-> "Usuario registrado"]
    ELSE [ok |-> FALSE, message |-> "La cedula no existe en nuestros registros"]

\* ---------------------------------------------------------------- FtpService

Folders == {"recientes", "anteriores"}

\* ord(c) for the characters file names use.
CharCode(c) ==
    CASE c = "." -> 46 [] c \in Digit -> 48 + DigitVal(c)
      [] c = "D" -> 68 [] c = "F" -> 70 [] c = "P" -> 80 [] c = "_" -> 95
      [] c = "d" -> 100 [] c = "f" -> 102 [] c = "p" -> 112
      [] c = "t" -> 116 [] c = "x" -> 120

\* a < b for Python strings.
RECURSIVE StrLess(_, _)
StrLess(a, b) ==
    IF Len(b) = 0 THEN FALSE
    ELSE IF Len(a) = 0 THEN TRUE
    ELSE IF a[1] = b[1] THEN StrLess(Tail(a), Tail(b))
    ELSE CharCode(a[1]) < CharCode(b[1])

\* list.sort() of a set of distinct names.
RECURSIVE Sorted(_)
Sorted(S) ==
    IF S = {} THEN <<>>
    ELSE LET m == CHOOSE x \in S : \A y \in S \ {x} : StrLess(x, y)
         IN  <<m>> \o Sorted(S \ {m})

PDF == <<".", "p", "d", "f">>

\* What the server lists for NLST "<dir>/*<cedula>*.pdf".
GlobMatches(files, cedula) ==
    {f \in files : Contains(f, cedula) /\ EndsWith(f, PDF)}

\* The fallback filter over the full listing:
\* filename.lower().endswith('.pdf') and cedula in filename
FilterMatches(files, cedula) ==
    {f \in files : EndsWith(Lower(f), PDF) /\ Contains(f, cedula)}

\* find_files_by_cedula(remote_subdir, cedula), names only.  outcome is what
\* the remote store does in this session: "ok", "glob_rejected" (NLST with a
\* pattern answered by error_perm) or "unreachable" (the session cannot be
\* opened).  raised = the call raised ValueError or ConnectionError.
find_files_by_cedula(files, remote_subdir, cedula, outcome) ==
    IF Len(cedula) = 0 \/ ~IsDigitStr(cedula)
    THEN [raised |-> TRUE, result |-> <<>>]
    ELSE IF outcome = "unreachable"
    THEN [raised |-> TRUE, result |-> <<>>]
    ELSE LET glob == IF outcome = "ok"
                     THEN GlobMatches(files[remote_subdir], cedula)
                     ELSE {}
         IN  IF glob # {}
             THEN [raised |-> FALSE, result |-> Sorted(glob)]
             ELSE [raised |-> FALSE,
                   result |-> Sorted(FilterMatches(files[remote_subdir], cedula))]

\* download_to_temp(remote_path): a temporary path, or None when the session
\* or the RETR fails.
download_to_temp(files, folder, file_name, dl_ok) ==
    dl_ok /\ file_name \in files[folder]

\* What the remote store does to a plain NLST of a folder: it answers, it
\* answers 550 (no such folder), it answers another error_perm, or the
\* session cannot be opened.
ListOutcomes == {"ok", "missing", "refused", "unreachable"}

\* The body of list_files_in_directory's try block, names only: the names
\* NLST yields, [] on a 550, ConnectionError on another error_perm or when
\* the session cannot be opened.
ListAttempt(files, subdir, outcome) ==
    CASE outcome = "ok"      -> [raised |-> FALSE, result |-> files[subdir]]
      [] outcome = "missing" -> [raised |-> FALSE, result |-> {}]
      [] OTHER               -> [raised |-> TRUE, result |-> {}]

\* list_files_in_directory(subdir), names only: every exception of the body
\* is caught and answered by [].
list_files_in_directory(files, subdir, outcome) ==
    LET body == ListAttempt(files, subdir, outcome)
    IN  IF body.raised THEN [raised |-> FALSE, result |-> {}] ELSE body

\* ------------------------------------------------------------ ReceiptService

Call(op, arg, ok) == [op |-> op, arg |-> arg, ok |-> ok]

\* The record of one find_files_by_cedula(folder, cedula) call; ok = it
\* returned a list (it did not raise).
FindCall(folder, cedula, env) ==
    Call("find_files_by_cedula", <<folder, cedula>>,
         ~find_files_by_cedula([f \in Folders |-> {}], folder, cedula, env.ftp[folder]).raised)

\* One folder of get_last_two_receipts' loop.
FolderReceipt(files, folder, cedula, outcome) ==
    LET found == find_files_by_cedula(files, folder, cedula, outcome)
    IN  IF ~found.raised /\ Len(found.result) > 0
        THEN <<[cedula |-> cedula, file_name |-> found.result[1], folder |-> folder,
                total_found |-> Len(found.result)]>>
        ELSE <<>>

\* Variant: the loop stops after the first folder.
get_recent_receipts_only(files, cedula, env) ==
    LET result_receipts == FolderReceipt(files, "recientes", cedula, env.ftp["recientes"])
    IN  [ok |-> Len(result_receipts) > 0, receipts |-> result_receipts,
         calls |-> << FindCall("recientes", cedula, env) >>]

\* Variant: the loop without its inner except clause, so that a search that
\* raises ends the whole call in the outer except clause.
get_last_two_receipts_uncaught(files, cedula, env) ==
    LET first  == find_files_by_cedula(files, "recientes", cedula, env.ftp["recientes"])
        second == find_files_by_cedula(files, "anteriores", cedula, env.ftp["anteriores"])
        result_receipts ==
            FolderReceipt(files, "recientes", cedula, env.ftp["recientes"])
              \o FolderReceipt(files, "anteriores", cedula, env.ftp["anteriores"])
        log == << FindCall("recientes", cedula, env), FindCall("anteriores", cedula, env) >>
    IN  IF first.raised
        THEN [ok |-> FALSE, receipts |-> <<>>, calls |-> << FindCall("recientes", cedula, env) >>]
        ELSE IF second.raised
        THEN [ok |-> FALSE, receipts |-> <<>>, calls |-> log]
        ELSE [ok |-> Len(result_receipts) > 0, receipts |-> result_receipts, calls |-> log]

get_last_two_receipts(files, cedula, env) ==
    LET result_receipts ==
            FolderReceipt(files, "recientes", cedula, env.ftp["recientes"])
              \o FolderReceipt(files, "anteriores", cedula, env.ftp["anteriores"])
        log == << FindCall("recientes", cedula, env), FindCall("anteriores", cedula, env) >>
    IN  [ok |-> Len(result_receipts) > 0, receipts |-> result_receipts, calls |-> log]

\* Variant: both folders are searched and the receipt of the wanted folder
\* is picked from the result.
get_receipts_by_scan(files, cedula, folder, env) ==
    LET found  == get_last_two_receipts(files, cedula, env)
        wanted == SelectSeq(found.receipts, LAMBDA r : r.folder = folder)
    IN  [ok |-> Len(wanted) > 0, receipts |-> wanted, calls |-> found.calls]

get_receipts_by_folder(files, cedula, folder, env) ==
    IF folder \notin Folders
    THEN [ok |-> FALSE, receipts |-> <<>>, calls |-> <<>>]
    ELSE LET found == find_files_by_cedula(files, folder, cedula, env.ftp[folder])
             log   == << FindCall(folder, cedula, env) >>
         IN  IF found.raised \/ Len(found.result) = 0
             THEN [ok |-> FALSE, receipts |-> <<>>, calls |-> log]
             ELSE [ok |-> TRUE,
                   receipts |-> <<[cedula |-> cedula, file_name |-> found.result[1],
                                   folder |-> folder, total_found |-> Len(found.result)]>>,
                   calls |-> log]

\* search_and_send_receipt(db, cedula, expedition_date_str, phone_number)
SearchOutcome(ok, message, log) == [ok |-> ok, message |-> message, calls |-> log]

\* Variant: a failed send of the buttons is reported as a failed search.
search_and_require_buttons(files, cedula, expedition_date_str, env) ==
    LET found == get_last_two_receipts(files, cedula, env)
        sent  == Call("send_whatsapp_interactive_buttons",
                      "Quincena anterior / Quincena actual", env.gw_buttons)
    IN  IF ~found.ok
        THEN SearchOutcome(FALSE, "No se encontraron comprobantes de pago para la cedula",
                           found.calls)
        ELSE IF ~env.gw_buttons
        THEN SearchOutcome(FALSE, "No fue posible enviar las opciones",
                           Append(found.calls, sent))
        ELSE SearchOutcome(TRUE, "options_sent", Append(found.calls, sent))

search_and_send_receipt(files, cedula, expedition_date_str, env) ==
    IF ~validate_cedula_format(cedula).ok
    THEN SearchOutcome(FALSE, validate_cedula_format(cedula).message, <<>>)
    ELSE IF ~validate_date_format(expedition_date_str).ok
    THEN SearchOutcome(FALSE, validate_date_format(expedition_date_str).message, <<>>)
    ELSE LET found == get_last_two_receipts(files, cedula, env)
         IN  IF ~found.ok
             THEN SearchOutcome(FALSE, "No se encontraron comprobantes de pago para la cedula",
                                found.calls)
             ELSE SearchOutcome(TRUE, "options_sent",
                    Append(found.calls,
                           Call("send_whatsapp_interactive_buttons",
                                "Quincena anterior / Quincena actual", env.gw_buttons)))

\* send_selected_receipt -> _send_receipt_pdf_from_data(receipt_data, phone_number)
send_selected_receipt(files, receipt, env) ==
    LET confirm  == Call("send_whatsapp_message", "Comprobante de pago encontrado",
                         env.gw_confirm)
        fetched  == download_to_temp(files, receipt.folder, receipt.file_name, env.dl_ok)
        download == Call("download_to_temp", <<receipt.folder, receipt.file_name>>, fetched)
    IN  IF ~fetched
        THEN [ok |-> FALSE, message |-> "No fue posible descargar el archivo",
              calls |-> <<confirm, download>>]
        ELSE [ok |-> env.gw_document,
              message |-> IF env.gw_document THEN "Comprobante enviado exitosamente"
                          ELSE "Error al enviar el archivo PDF",
              calls |-> <<confirm, download,
                          Call("send_whatsapp_document", <<receipt.folder, receipt.file_name>>,
                               env.gw_document)>>]

\* --------------------------------------------------------------- BotService

\* cancel_keywords
cancel_keywords ==
    { <<"c", "a", "n", "c", "e", "l", "a", "r">>,
      <<"c", "a", "n", "c", "e", "l">>,
      <<"m", "e", "n", "u">>,
      <<"m", "e", "n", "u_acute">>,
      <<"v", "o", "l", "v", "e", "r">>,
      <<"a", "t", "r", "a", "s">>,
      <<"a", "t", "r", "a_acute", "s">>,
      <<"s", "a", "l", "i", "r">>,
      <<"0">> }

\* option_map, in insertion order: <<keyword, option>>
option_map ==
    << <<<<"1">>, "1">>,
       <<<<"c", "o", "n", "t", "a", "c", "t", "o">>, "1">>,
       <<<<"2">>, "2">>,
       <<<<"p", "a", "g", "o">>, "2">>,
       <<<<"c", "o", "m", "p", "r", "o", "b", "a", "n", "t", "e">>, "2">>,
       <<<<"3">>, "3">>,
       <<<<"a", "n", "i", "m", "o">>, "3">>,
       <<<<"a_acute", "n", "i", "m", "o">>, "3">>,
       <<<<"4">>, "4">>,
       <<<<"q", "u", "e", "j", "a">>, "4">>,
       <<<<"d", "e", "n", "u", "n", "c", "i", "a">>, "4">>,
       <<<<"5">>, "5">>,
       <<<<"d", "a", "t", "o", "s">>, "5">>,
       <<<<"6">>, "6">>,
       <<<<"s", "u", "s", "c", "r", "i", "p", "c", "i", "o", "n">>, "6">>,
       <<<<"s", "u", "s", "c", "r", "i", "p", "c", "i", "o_acute", "n">>, "6">> >>

\* The loop over option_map.items(): the option of the first keyword the
\* message contains, or NULL.
chosen_option(message) ==
    LET hits == {i \in 1..Len(option_map) : Contains(message, option_map[i][1])}
    IN  IF hits = {} THEN NULL
        ELSE option_map[CHOOSE i \in hits : \A j \in hits : i <= j][2]

\* A WhatsappUser row, as the handler reads and writes it.  data is the
\* decoded conversation_data: null = None, cedula = <<>> when the key is
\* absent.
Row(state, data, active) == [state |-> state, data |-> data, is_active |-> active]

NoData == [null |-> TRUE, cedula |-> <<>>, receipts_found |-> FALSE]

CedulaData(cedula) == [null |-> FALSE, cedula |-> cedula, receipts_found |-> FALSE]

\* What a handler leaves: the row attributes as assigned, the calls it made
\* and the text it returns ("" = nothing to send).
Outcome(row, log, response_text) ==
    [row |-> row, calls |-> log, response |-> response_text]

\* Variant: a cedula that is not registered ends the conversation.
HandleWaitingCedulaEndingOnUnknown(message, row, users) ==
    LET fmt == Call("validate_cedula_format", message, validate_cedula_format(message).ok)
        reg == Call("is_cedula_registered", message, is_cedula_registered(users, message).ok)
    IN  IF ~validate_cedula_format(message).ok
        THEN Outcome(row, <<fmt>>, "cedula_format_error")
        ELSE IF ~is_cedula_registered(users, message).ok
        THEN Outcome(Row(NULL, NoData, row.is_active), <<fmt, reg>>,
                     "cedula_not_registered")
        ELSE Outcome(Row("waiting_date", CedulaData(message), row.is_active), <<fmt, reg>>,
                     "ask_expedition_date")

\* The waiting_cedula branch of _handle_receipt_conversation.
HandleWaitingCedula(message, row, users) ==
    LET fmt == Call("validate_cedula_format", message, validate_cedula_format(message).ok)
        reg == Call("is_cedula_registered", message, is_cedula_registered(users, message).ok)
    IN  IF ~validate_cedula_format(message).ok
        THEN Outcome(row, <<fmt>>, "cedula_format_error")
        ELSE IF ~is_cedula_registered(users, message).ok
        THEN Outcome(Row("waiting_cedula", NoData, row.is_active), <<fmt, reg>>,
                     "cedula_not_registered")
        ELSE Outcome(Row("waiting_date", CedulaData(message), row.is_active), <<fmt, reg>>,
                     "ask_expedition_date")

\* Variant: a search that finds nothing resets the state and keeps the data.
HandleWaitingDateKeepingData(message, row, users, files, env) ==
    LET parsed == validate_date_format(message)
        fmt    == Call("validate_date_format", message, parsed.ok)
        cedula == row.data.cedula
        valid  == validate_user_data(users, cedula, parsed.date_obj)
        chk    == Call("validate_user_data", cedula, valid.ok)
        search == search_and_send_receipt(files, cedula, message, env)
    IN  IF ~parsed.ok
        THEN Outcome(row, <<fmt>>, "date_format_error")
        ELSE IF ~valid.ok
        THEN Outcome(row, <<fmt, chk>>, "user_data_error")
        ELSE IF search.ok
        THEN Outcome(Row("waiting_receipt_selection",
                         [row.data EXCEPT !.null = FALSE, !.receipts_found = TRUE],
                         row.is_active),
                     <<fmt, chk>> \o search.calls, "")
        ELSE Outcome(Row(NULL, row.data, row.is_active), <<fmt, chk>> \o search.calls,
                     "receipts_not_found")

\* Variant: the data stored with the options holds receipts_found alone.
HandleWaitingDateDroppingCedula(message, row, users, files, env) ==
    LET parsed == validate_date_format(message)
        fmt    == Call("validate_date_format", message, parsed.ok)
        cedula == row.data.cedula
        valid  == validate_user_data(users, cedula, parsed.date_obj)
        chk    == Call("validate_user_data", cedula, valid.ok)
        search == search_and_send_receipt(files, cedula, message, env)
    IN  IF ~parsed.ok
        THEN Outcome(row, <<fmt>>, "date_format_error")
        ELSE IF ~valid.ok
        THEN Outcome(row, <<fmt, chk>>, "user_data_error")
        ELSE IF Len(cedula) = 0
        THEN Outcome(Row(NULL, NoData, row.is_active), <<fmt, chk>>, "process_error")
        ELSE IF search.ok /\ search.message = "options_sent"
        THEN Outcome(Row("waiting_receipt_selection",
                         [null |-> FALSE, cedula |-> <<>>, receipts_found |-> TRUE],
                         row.is_active),
                     <<fmt, chk>> \o search.calls, "")
        ELSE Outcome(Row(NULL, NoData, row.is_active), <<fmt, chk>> \o search.calls,
                     IF search.ok THEN "search_done" ELSE "receipts_not_found")

\* Variant: the search goes on although the date does not match the
\* registered one.
HandleWaitingDateUnchecked(message, row, users, files, env) ==
    LET parsed == validate_date_format(message)
        fmt    == Call("validate_date_format", message, parsed.ok)
        cedula == row.data.cedula
        valid  == validate_user_data(users, cedula, parsed.date_obj)
        chk    == Call("validate_user_data", cedula, valid.ok)
        search == search_and_send_receipt(files, cedula, message, env)
    IN  IF ~parsed.ok
        THEN Outcome(row, <<fmt>>, "date_format_error")
        ELSE IF Len(cedula) = 0
        THEN Outcome(Row(NULL, NoData, row.is_active), <<fmt, chk>>, "process_error")
        ELSE IF search.ok /\ search.message = "options_sent"
        THEN Outcome(Row("waiting_receipt_selection",
                         [row.data EXCEPT !.null = FALSE, !.receipts_found = TRUE],
                         row.is_active),
                     <<fmt, chk>> \o search.calls, "")
        ELSE Outcome(Row(NULL, NoData, row.is_active), <<fmt, chk>> \o search.calls,
                     IF search.ok THEN "search_done" ELSE "receipts_not_found")

\* The waiting_date branch.
HandleWaitingDate(message, row, users, files, env) ==
    LET parsed == validate_date_format(message)
        fmt    == Call("validate_date_format", message, parsed.ok)
        cedula == row.data.cedula
        valid  == validate_user_data(users, cedula, parsed.date_obj)
        chk    == Call("validate_user_data", cedula, valid.ok)
        search == search_and_send_receipt(files, cedula, message, env)
    IN  IF ~parsed.ok
        THEN Outcome(row, <<fmt>>, "date_format_error")
        ELSE IF ~valid.ok
        THEN Outcome(row, <<fmt, chk>>, "user_data_error")
        ELSE IF Len(cedula) = 0
        THEN Outcome(Row(NULL, NoData, row.is_active), <<fmt, chk>>, "process_error")
        ELSE IF search.ok /\ search.message = "options_sent"
        THEN Outcome(Row("waiting_receipt_selection",
                         [row.data EXCEPT !.null = FALSE, !.receipts_found = TRUE],
                         row.is_active),
                     <<fmt, chk>> \o search.calls, "")
        ELSE Outcome(Row(NULL, NoData, row.is_active), <<fmt, chk>> \o search.calls,
                     IF search.ok THEN "search_done" ELSE "receipts_not_found")

\* Variant: the conversation ends only when the receipt was delivered.
HandleWaitingSelectionUntilSent(message, row, files, env) ==
    LET cedula      == row.data.cedula
        folder_name == IF message = <<"2">> THEN "recientes" ELSE "anteriores"
        found       == get_receipts_by_folder(files, cedula, folder_name, env)
        sent        == send_selected_receipt(files, found.receipts[1], env)
    IN  IF message \notin {<<"1">>, <<"2">>}
        THEN Outcome(row, <<>>, "selection_reprompt")
        ELSE IF ~found.ok
        THEN Outcome(Row(NULL, NoData, row.is_active), found.calls,
                     IF message = <<"2">> THEN "no_receipts_current"
                     ELSE "no_receipts_previous")
        ELSE IF ~sent.ok
        THEN Outcome(row, found.calls \o sent.calls, "receipt_send_error")
        ELSE Outcome(Row(NULL, NoData, row.is_active), found.calls \o sent.calls,
                     "receipt_sent")

\* Variant: an answer that is neither "1" nor "2" ends the conversation.
HandleWaitingSelectionEndingOnOther(message, row, files, env) ==
    LET cedula      == row.data.cedula
        folder_name == IF message = <<"2">> THEN "recientes" ELSE "anteriores"
        found       == get_receipts_by_folder(files, cedula, folder_name, env)
        sent        == send_selected_receipt(files, found.receipts[1], env)
    IN  IF message \notin {<<"1">>, <<"2">>}
        THEN Outcome(Row(NULL, NoData, row.is_active), <<>>, "selection_reprompt")
        ELSE IF Len(cedula) = 0
        THEN Outcome(Row(NULL, NoData, row.is_active), <<>>, "process_error")
        ELSE IF ~found.ok
        THEN Outcome(Row(NULL, NoData, row.is_active), found.calls,
                     IF message = <<"2">> THEN "no_receipts_current"
                     ELSE "no_receipts_previous")
        ELSE Outcome(Row(NULL, NoData, row.is_active), found.calls \o sent.calls,
                     IF sent.ok THEN "receipt_sent" ELSE "receipt_send_error")

\* The waiting_receipt_selection branch.
HandleWaitingSelection(message, row, files, env) ==
    LET cedula      == row.data.cedula
        folder_name == IF message = <<"2">> THEN "recientes" ELSE "anteriores"
        found       == get_receipts_by_folder(files, cedula, folder_name, env)
        sent        == send_selected_receipt(files, found.receipts[1], env)
    IN  IF message \notin {<<"1">>, <<"2">>}
        THEN Outcome(row, <<>>, "selection_reprompt")
        ELSE IF Len(cedula) = 0
        THEN Outcome(Row(NULL, NoData, row.is_active), <<>>, "process_error")
        ELSE IF ~found.ok
        THEN Outcome(Row(NULL, NoData, row.is_active), found.calls,
                     IF message = <<"2">> THEN "no_receipts_current"
                     ELSE "no_receipts_previous")
        ELSE Outcome(Row(NULL, NoData, row.is_active), found.calls \o sent.calls,
                     IF sent.ok THEN "receipt_sent" ELSE "receipt_send_error")

\* Variant: the cancel keywords are looked at after the state's own branch
\* has refused the message.
handle_state_before_cancel(message, row, users, files, env) ==
    LET message_lower == Strip(Lower(message))
        own == IF row.state = "waiting_cedula"
               THEN HandleWaitingCedula(message, row, users)
               ELSE IF row.state = "waiting_date"
               THEN HandleWaitingDate(message, row, users, files, env)
               ELSE HandleWaitingSelection(message, row, files, env)
    IN  IF own.row = row /\ message_lower \in cancel_keywords
        THEN Outcome(Row(NULL, NoData, row.is_active), own.calls, "WELCOME_MESSAGE")
        ELSE own

\* _handle_receipt_conversation(message, user_phone_number, user, db, display_name)
handle_receipt_conversation(message, row, users, files, env) ==
    LET message_lower == Strip(Lower(message))
    IN  IF message_lower \in cancel_keywords
        THEN Outcome(Row(NULL, NoData, row.is_active), <<>>, "WELCOME_MESSAGE")
        ELSE IF row.state = "waiting_cedula"
        THEN HandleWaitingCedula(message, row, users)
        ELSE IF row.state = "waiting_date"
        THEN HandleWaitingDate(message, row, users, files, env)
        ELSE IF row.state = "waiting_receipt_selection"
        THEN HandleWaitingSelection(message, row, files, env)
        ELSE Outcome(Row(NULL, NoData, row.is_active), <<>>, "process_error")

\* Variant: the receipt option answers with the prompt and leaves the row.
HandleMenuWithoutState(message, row) ==
    LET option == chosen_option(message)
    IN  IF option = "6"
        THEN Outcome([row EXCEPT !.is_active = FALSE], <<>>, "subscription_cancelled")
        ELSE IF option = "2" THEN Outcome(row, <<>>, "RECEIPT_INIT_MESSAGE")
        ELSE Outcome(row, <<>>, "WELCOME_MESSAGE")

\* Variant: a message that matches no option is asked for a valid option
\* and is not sent the menu.
HandleMenuAskingForOption(message, row) ==
    LET option == chosen_option(message)
    IN  IF option = "6"
        THEN Outcome([row EXCEPT !.is_active = FALSE], <<>>, "subscription_cancelled")
        ELSE IF option = "1" THEN Outcome(row, <<>>, "CONTACT_MESSAGE")
        ELSE IF option = "2"
        THEN Outcome([row EXCEPT !.state = "waiting_cedula"], <<>>, "RECEIPT_INIT_MESSAGE")
        ELSE IF option = "4" THEN Outcome(row, <<>>, "pqrs_message")
        ELSE IF option = "5" THEN Outcome(row, <<>>, "DATA_TREATMENT_MESSAGE")
        ELSE IF option = "3" THEN Outcome(row, <<>>, "mood_unavailable")
        ELSE Outcome(row, <<>>, "invalid_option")

\* The menu of process_message, reached when conversation_state is empty.
HandleMenu(message, row) ==
    LET option == chosen_option(message)
    IN  IF option = "6"
        THEN Outcome([row EXCEPT !.is_active = FALSE], <<>>, "subscription_cancelled")
        ELSE IF option = "1" THEN Outcome(row, <<>>, "CONTACT_MESSAGE")
        ELSE IF option = "2"
        THEN Outcome([row EXCEPT !.state = "waiting_cedula"], <<>>, "RECEIPT_INIT_MESSAGE")
        ELSE IF option = "4" THEN Outcome(row, <<>>, "pqrs_message")
        ELSE IF option = "5" THEN Outcome(row, <<>>, "DATA_TREATMENT_MESSAGE")
        ELSE IF option = "3" THEN Outcome(row, <<>>, "mood_unavailable")
        ELSE Outcome(row, <<>>, "WELCOME_MESSAGE")

\* The automatic reply: send_whatsapp_message(response_text) when the text
\* is not empty; its result is only printed.
SendReply(out, env) ==
    IF out.response = "" THEN out
    ELSE [out EXCEPT !.calls = Append(@, Call("send_whatsapp_message", out.response,
                                              env.gw_reply))]

\* Variant: the end of the subscription is read in every state.
process_message_reading_option_6(raw_message, row, users, files, env) ==
    LET message == Strip(Lower(raw_message))
    IN  IF row.state # NULL /\ chosen_option(message) # "6"
        THEN SendReply(handle_receipt_conversation(message, row, users, files, env), env)
        ELSE SendReply(HandleMenu(message, row), env)

\* process_message(message, user_name, user_phone_number, db), on the row
\* read after create_or_update_whatsapp_user.
process_message(raw_message, row, users, files, env) ==
    LET message == Strip(Lower(raw_message))
    IN  IF row.state # NULL
        THEN SendReply(handle_receipt_conversation(message, row, users, files, env), env)
        ELSE SendReply(HandleMenu(message, row), env)

\* ------------------------------------------------------------ the environment

\* Inbound texts, as the webhook hands them over (before lower().strip()).
InboundMessages ==
    { <<"1">>,
      <<"2">>,
      <<"0">>,
      <<"5">>,
      <<"6">>,
      <<"p", "a", "g", "o">>,
      <<" ", "M", "E", "N", "U">>,
      <<"1", "2">>,
      <<"3", "4">>,
      <<"7">>,
      <<"a", "1", "2">>,
      <<"a", "b", "c">>,
      <<"1", "/", "3", "/", "2", "0", "0", "0">>,
      <<"2", "9", "/", "0", "2", "/", "2", "0", "0", "0">>,
      <<"0", "2", "/", "0", "3", "/", "2", "0", "0", "0">>,
      <<"0", "3", "/", "0", "3", "/", "2", "0", "0", "0">>,
      <<"3", "0", "/", "0", "2", "/", "2", "0", "0", "1">> }

\* File names the remote store may hold.
FileNames ==
    { <<"1", "_", "1", "2", ".", "p", "d", "f">>,
      <<"1", "2", "_", "2", ".", "p", "d", "f">> }

Stores == [Folders -> SUBSET FileNames]

PaymentUser(cedula, expedition_date, active) ==
    [cedula |-> cedula, expedition_date |-> expedition_date, is_active |-> active]

\* The payment_users table.  expedition_date is a DateTime column, so a
\* stored value may carry a time of day (the second user's does).
Registry ==
    { PaymentUser(<<"1", "2">>, DateTime(2000, 3, 1), TRUE),
      PaymentUser(<<"3", "4">>, DateTime(2000, 2, 29) + (TicksPerDay \div 2), TRUE),
      PaymentUser(<<"7">>, DateTime(1990, 3, 15), FALSE) }

FtpOutcomes == {"ok", "glob_rejected", "unreachable"}

\* What the gateway and the remote store do during one event.
Env(reply, buttons, confirm, document, dl, ftp) ==
    [gw_reply |-> reply, gw_buttons |-> buttons, gw_confirm |-> confirm,
     gw_document |-> document, dl_ok |-> dl, ftp |-> ftp]

AllFtpOk == [f \in Folders |-> "ok"]

\* The outcomes an event can observe: the reply's send always; the searches
\* of both folders and the buttons' send for a well-formed date in
\* waiting_date; the search of the chosen folder, the download and the
\* confirmation and document sends for a choice in waiting_receipt_selection.
\* Outcomes the handler never consults are held at their default.
Envs(state, message) ==
    IF state = "waiting_date" /\ validate_date_format(message).ok
    THEN {Env(r, b, TRUE, TRUE, TRUE, ftp) :
            r \in BOOLEAN, b \in BOOLEAN, ftp \in [Folders -> FtpOutcomes]}
    ELSE IF state = "waiting_receipt_selection" /\ message \in {<<"1">>, <<"2">>}
    THEN {Env(r[1], TRUE, r[2], r[3], r[4],
              [AllFtpOk EXCEPT ![IF message = <<"2">> THEN "recientes" ELSE "anteriores"] = o]) :
            r \in BOOLEAN \X BOOLEAN \X BOOLEAN \X BOOLEAN, o \in FtpOutcomes}
    ELSE {Env(r, TRUE, TRUE, TRUE, TRUE, AllFtpOk) : r \in BOOLEAN}

\* The same event with every gateway send succeeding.
GatewayOk(env) ==
    [env EXCEPT !.gw_reply = TRUE, !.gw_buttons = TRUE, !.gw_confirm = TRUE,
                !.gw_document = TRUE]

\* --------------------------------------------------------------- the machine

CurrentRow == Row(conversation_state, conversation_data, is_active)

NoEvent == [seen |-> FALSE, message |-> <<>>, row |-> Row(NULL, NoData, TRUE),
            ideal |-> Row(NULL, NoData, TRUE)]

NoProbe == [fn |-> "none"]

\* _file_metadata_cache = {}: no folder has an entry.  An absent entry is
\* cached = FALSE; a present one holds the snapshot and datetime.now() at the
\* moment it was stored.
NoEntry == [cached |-> FALSE, files |-> {}, timestamp |-> 0]

NoCache == [f \in Folders |-> NoEntry]

\* The two webhook deliveries SpecRace follows.
Handlers == {"A", "B"}

Waiting == [phase |-> "waiting", message |-> <<>>, snapshot |-> Row(NULL, NoData, TRUE),
            result |-> Row(NULL, NoData, TRUE)]

NoHandlers == [h \in Handlers |-> Waiting]

\* A contact that has not written yet: the row create_or_update_whatsapp_user
\* inserts has no conversation_state and no conversation_data.
Init ==
    /\ conversation_state = NULL
    /\ conversation_data = NoData
    /\ is_active = TRUE
    /\ payment_users = Registry
    /\ ftp_files \in Stores
    /\ calls = <<>>
    /\ last = NoEvent
    /\ inflight = NoHandlers
    /\ base = Row(NULL, NoData, TRUE)
    /\ probe = NoProbe
    /\ file_metadata_cache = NoCache
    /\ now = 0
    /\ messages = <<>>

\* One inbound event handled from start to end: receive_webhook ->
\* process_message -> db.commit().
ReceiveMessage ==
    \E raw \in InboundMessages : \E env \in Envs(conversation_state, Strip(Lower(raw))) :
      \E out \in {process_message(raw, CurrentRow, payment_users, ftp_files, env)} :
      \E ok \in {process_message(raw, CurrentRow, payment_users, ftp_files, GatewayOk(env))} :
        /\ conversation_state' = out.row.state
        /\ conversation_data' = out.row.data
        /\ is_active' = out.row.is_active
        /\ calls' = out.calls
        /\ last' = [seen |-> TRUE, message |-> raw, row |-> CurrentRow, ideal |-> ok.row]
        /\ UNCHANGED <<payment_users, ftp_files, inflight, base, probe,
                       file_metadata_cache, now, messages>>

Next == ReceiveMessage

Spec == Init /\ [][Next]_vars

\* ------------------------------------------------- the validators on their own

\* str(n) for n >= 0.
RECURSIVE NumText(_)
NumText(n) ==
    IF n < 10 THEN <<DigitChar(n)>>
    ELSE NumText(n \div 10) \o <<DigitChar(n % 10)>>

\* "%02d" % n when padded, str(n) otherwise.
FieldText(n, padded) ==
    IF padded /\ n < 10 THEN <<"0">> \o NumText(n) ELSE NumText(n)

\* The text a contact types for a day, a month and a year.
DateText(day, month, year, padded) ==
    FieldText(day, padded) \o <<"/">> \o FieldText(month, padded) \o <<"/">> \o NumText(year)

Days == {0, 1, 28, 29, 30, 31, 32}

Months == {0, 1, 2, 4, 12, 13}

Years == {1899, 1900, 2000, 2001, 2024, CurrentYear, CurrentYear + 1}

\* Texts that are no day/month/year of one or two, one or two and four digits.
MalformedTexts ==
    { <<>>,
      <<"a", "b", "c">>,
      <<"1", "-", "3", "-", "2", "0", "0", "0">>,
      <<"1", "/", "3", "/", "2", "0">>,
      <<"1", "/", "3", "/", "0", "2", "0", "0", "0">>,
      <<"0", "0", "1", "/", "3", "/", "2", "0", "0", "0">>,
      <<"1", "/", "3", "/", "2", "0", "0", "0", " ">>,
      <<"1", "/", "/", "2", "0", "0", "0">>,
      <<"1", "/", "3", "/", "2", "0", "0", "0", "/">> }

\* Tables that differ in the time of day the first user's date was stored
\* with, and in whether the third user is active.
Registries ==
    { { PaymentUser(<<"1", "2">>, DateTime(2000, 3, 1) + t, TRUE),
        PaymentUser(<<"3", "4">>, DateTime(2000, 2, 29) + (TicksPerDay \div 2), TRUE),
        PaymentUser(<<"7">>, DateTime(1990, 3, 15), active) } :
      t \in 0..(TicksPerDay - 1), active \in BOOLEAN }

Cedulas == { <<"1", "2">>, <<"3", "4">>, <<"7">>, <<"9", "9">> }

\* Supplied datetimes: up to two days and a tick around a stored one.
NearbyOffsets == (0 - 2 * TicksPerDay - 1)..(2 * TicksPerDay + 1)

InitValidation ==
    /\ conversation_state = NULL
    /\ conversation_data = NoData
    /\ is_active = TRUE
    /\ payment_users \in Registries
    /\ ftp_files = [f \in Folders |-> {}]
    /\ calls = <<>>
    /\ last = NoEvent
    /\ inflight = NoHandlers
    /\ base = Row(NULL, NoData, TRUE)
    /\ probe = NoProbe
    /\ file_metadata_cache = NoCache
    /\ now = 0
    /\ messages = <<>>

\* ValidationService.validate_date_format(date_str) on a typed date.
ApplyValidateDate ==
    \E day \in Days, month \in Months, year \in Years, padded \in BOOLEAN :
      \E res \in {validate_date_format(DateText(day, month, year, padded))} :
        /\ probe' = [fn |-> "validate_date_format",
                     text |-> DateText(day, month, year, padded), typed |-> TRUE,
                     day |-> day, month |-> month, year |-> year,
                     ok |-> res.ok, message |-> res.message]
        /\ UNCHANGED <<conversation_state, conversation_data, is_active, payment_users,
                       ftp_files, calls, last, inflight, base,
                       file_metadata_cache, now, messages>>

\* ValidationService.validate_date_format(date_str) on another text.
ApplyValidateText ==
    \E text \in MalformedTexts :
      \E res \in {validate_date_format(text)} :
        /\ probe' = [fn |-> "validate_date_format", text |-> text, typed |-> FALSE,
                     day |-> 0, month |-> 0, year |-> 0,
                     ok |-> res.ok, message |-> res.message]
        /\ UNCHANGED <<conversation_state, conversation_data, is_active, payment_users,
                       ftp_files, calls, last, inflight, base,
                       file_metadata_cache, now, messages>>

\* ValidationService.validate_user_data(db, cedula, expedition_date)
ApplyValidateUserData ==
    \E cedula \in Cedulas, u \in payment_users, offset \in NearbyOffsets :
      \E res \in {validate_user_data(payment_users, cedula, u.expedition_date + offset)} :
        /\ probe' = [fn |-> "validate_user_data", cedula |-> cedula,
                     expedition_date |-> u.expedition_date + offset,
                     ok |-> res.ok, message |-> res.message]
        /\ UNCHANGED <<conversation_state, conversation_data, is_active, payment_users,
                       ftp_files, calls, last, inflight, base,
                       file_metadata_cache, now, messages>>

NextValidation == ApplyValidateDate \/ ApplyValidateText \/ ApplyValidateUserData

SpecValidation == InitValidation /\ [][NextValidation]_vars

\* ------------------------------------- two deliveries of one phone number

\* Rows a contact's dialogue reaches (each one is a state of Spec).
RaceRows ==
    { Row(NULL, NoData, TRUE),
      Row("waiting_cedula", NoData, TRUE),
      Row("waiting_date", CedulaData(<<"1", "2">>), TRUE),
      Row("waiting_receipt_selection",
          [CedulaData(<<"1", "2">>) EXCEPT !.receipts_found = TRUE], TRUE) }

RaceStores == {st \in Stores : \A f \in Folders : st[f] \in {{}, FileNames}}

RaceMessages ==
    { <<"1">>,
      <<"2">>,
      <<" ", "M", "E", "N", "U">>,
      <<"1", "2">>,
      <<"3", "4">>,
      <<"0", "2", "/", "0", "3", "/", "2", "0", "0", "0">>,
      <<"3", "0", "/", "0", "2", "/", "2", "0", "0", "1">> }

\* The gateway delivers; the remote store answers or not.
RaceEnvs ==
    {Env(TRUE, TRUE, TRUE, TRUE, TRUE, ftp) : ftp \in [Folders -> {"ok", "unreachable"}]}

InitRace ==
    /\ \E row \in RaceRows :
         /\ conversation_state = row.state
         /\ conversation_data = row.data
         /\ is_active = row.is_active
         /\ base = row
    /\ payment_users = Registry
    /\ ftp_files \in RaceStores
    /\ calls = <<>>
    /\ last = NoEvent
    /\ inflight = NoHandlers
    /\ probe = NoProbe
    /\ file_metadata_cache = NoCache
    /\ now = 0
    /\ messages = <<>>

\* process_message up to its last assignment: the handler loads the row in
\* its own session (get_db gives each request one), and works on that copy;
\* nothing between the load and the commit locks or re-reads the row.
ReadRow(h) ==
    /\ inflight[h].phase = "waiting"
    /\ \E raw \in RaceMessages, env \in RaceEnvs :
         inflight' = [inflight EXCEPT ![h] =
                        [phase |-> "read", message |-> raw, snapshot |-> CurrentRow,
                         result |-> process_message(raw, CurrentRow, payment_users,
                                                    ftp_files, env).row]]
    /\ UNCHANGED <<conversation_state, conversation_data, is_active, payment_users,
                   ftp_files, calls, last, base, probe,
                   file_metadata_cache, now, messages>>

\* db.commit(): the session's UPDATE sets the attributes whose value differs
\* from the loaded one, and only those.
CommitRow(h) ==
    /\ inflight[h].phase = "read"
    /\ conversation_state' =
         IF inflight[h].result.state # inflight[h].snapshot.state
         THEN inflight[h].result.state ELSE conversation_state
    /\ conversation_data' =
         IF inflight[h].result.data # inflight[h].snapshot.data
         THEN inflight[h].result.data ELSE conversation_data
    /\ is_active' =
         IF inflight[h].result.is_active # inflight[h].snapshot.is_active
         THEN inflight[h].result.is_active ELSE is_active
    /\ inflight' = [inflight EXCEPT ![h].phase = "done"]
    /\ UNCHANGED <<payment_users, ftp_files, calls, last, base, probe,
                   file_metadata_cache, now, messages>>

NextRace == \E h \in Handlers : ReadRow(h) \/ CommitRow(h)

SpecRace == InitRace /\ [][NextRace]_vars

\* ----------------------------------------- the identifier of a file name

\* str.replace(sub, ''): every occurrence, left to right, without overlap.
RECURSIVE Remove(_, _)
Remove(s, sub) ==
    IF Len(s) < Len(sub) THEN s
    ELSE IF SubSeq(s, 1, Len(sub)) = sub
    THEN Remove(SubSeq(s, Len(sub) + 1, Len(s)), sub)
    ELSE <<s[1]>> \o Remove(Tail(s), sub)

\* The length of the digit run s starts with.
RECURSIVE RunLength(_)
RunLength(s) ==
    IF Len(s) = 0 \/ s[1] \notin Digit THEN 0 ELSE 1 + RunLength(Tail(s))

\* re.findall(r'\d+', s): the maximal digit runs, in order.
RECURSIVE DigitRuns(_)
DigitRuns(s) ==
    IF Len(s) = 0 THEN <<>>
    ELSE IF s[1] \notin Digit THEN DigitRuns(Tail(s))
    ELSE <<SubSeq(s, 1, RunLength(s))>>
           \o DigitRuns(SubSeq(s, RunLength(s) + 1, Len(s)))

\* Variant: no run is taken for a date.
NeverTimestamp(number) == FALSE

\* "looks like a timestamp (YYYYMMDD format)"
LooksLikeTimestamp(number) ==
    /\ Len(number) = 8
    /\ ToInt(SubSeq(number, 1, 4)) \in 1900..2100
    /\ ToInt(SubSeq(number, 5, 6)) \in 1..12
    /\ ToInt(SubSeq(number, 7, 8)) \in 1..31

\* "looks like a time (HHMMSS format)"
LooksLikeTime(number) ==
    /\ Len(number) = 6
    /\ ToInt(SubSeq(number, 1, 2)) \in 0..23
    /\ ToInt(SubSeq(number, 3, 4)) \in 0..59
    /\ ToInt(SubSeq(number, 5, 6)) \in 0..59

\* The loop that fills valid_cedulas.
valid_cedulas(numbers) ==
    SelectSeq(numbers, LAMBDA number :
        /\ ~LooksLikeTimestamp(number)
        /\ ~LooksLikeTime(number)
        /\ Len(number) >= 6
        /\ Len(number) <= 12)

\* Variant: the first element, whatever its length.
FirstMet(seq) == seq[1]

\* max(seq, key=len): the first of the longest.
LongestFirst(seq) ==
    seq[CHOOSE i \in 1..Len(seq) :
          /\ \A j \in 1..Len(seq) : Len(seq[j]) <= Len(seq[i])
          /\ \A j \in 1..(i - 1) : Len(seq[j]) < Len(seq[i])]

NotAvailable == <<"N", "/", "A">>

PDFUpper == <<".", "P", "D", "F">>

\* extract_cedula_from_filename(filename).  sorted(key=len, reverse=True) is
\* stable, so the first run of 8 to 10 digits it meets is the first of the
\* longest such runs.
extract_cedula_from_filename(filename) ==
    LET name_without_ext == Remove(Remove(filename, PDF), PDFUpper)
        numbers   == DigitRuns(name_without_ext)
        valid     == valid_cedulas(numbers)
        preferred == SelectSeq(valid, LAMBDA c : Len(c) >= 8 /\ Len(c) <= 10)
    IN  IF Len(numbers) = 0 THEN NotAvailable
        ELSE IF Len(valid) = 0 THEN NotAvailable
        ELSE IF Len(preferred) > 0 THEN LongestFirst(preferred)
        ELSE LongestFirst(valid)

\* Digit runs the names of the modelled files are made of.
NameRuns ==
    { NumText(20240115), NumText(20240231), NumText(20000229), NumText(18991231),
      NumText(21001231), NumText(21010101), NumText(20241301), NumText(20240100),
      NumText(123456), NumText(235959), NumText(246060), NumText(999999),
      <<"0", "0", "0", "0", "0", "0">>,
      NumText(12345), NumText(1234567), NumText(12345678), NumText(123456789),
      NumText(1234567890), NumText(12345678) \o NumText(901),
      NumText(12345678) \o NumText(9012), NumText(12345678) \o NumText(90123) }

Separators == { <<"_">>, <<"-", "v">> }

Extensions == { PDF, PDFUpper }

\* The names put to the extractor, with the digit runs they were made of.
FileNameInputs ==
    { [fn |-> "pending", filename |-> <<"P">> \o r \o ext, runs |-> <<r>>] :
        r \in NameRuns, ext \in Extensions }
    \cup
    { [fn |-> "pending", filename |-> r1 \o sep \o r2 \o PDF, runs |-> <<r1, r2>>] :
        r1 \in NameRuns, r2 \in NameRuns, sep \in Separators }

InitExtract ==
    /\ conversation_state = NULL
    /\ conversation_data = NoData
    /\ is_active = TRUE
    /\ payment_users = Registry
    /\ ftp_files = [f \in Folders |-> {}]
    /\ calls = <<>>
    /\ last = NoEvent
    /\ inflight = NoHandlers
    /\ base = Row(NULL, NoData, TRUE)
    /\ probe \in FileNameInputs
    /\ file_metadata_cache = NoCache
    /\ now = 0
    /\ messages = <<>>

\* extract_cedula_from_filename(filename), as the listing of receipts and
\* the upload call it.
ExtractCedula ==
    /\ probe.fn = "pending"
    /\ probe' = [fn |-> "extract_cedula_from_filename",
                 filename |-> probe.filename, runs |-> probe.runs,
                 result |-> extract_cedula_from_filename(probe.filename)]
    /\ UNCHANGED <<conversation_state, conversation_data, is_active, payment_users,
                   ftp_files, calls, last, inflight, base,
                   file_metadata_cache, now, messages>>

NextExtract == ExtractCedula

SpecExtract == InitExtract /\ [][NextExtract]_vars

\* --------------------------------------------------------- the metadata cache

CACHE_DURATION_MINUTES == 5

\* A stored entry: {'files': snapshot, 'timestamp': datetime.now()}.
Entry(files, timestamp) == [cached |-> TRUE, files |-> files, timestamp |-> timestamp]

\* Variant: an entry is still served at the end of its window.
CacheValidThroughWindow(entry, clock) ==
    entry.cached /\ clock - entry.timestamp <= CACHE_DURATION_MINUTES

\* cache_key in _file_metadata_cache and
\* datetime.now() - cache_time < timedelta(minutes=CACHE_DURATION_MINUTES)
CacheValid(entry, clock) ==
    entry.cached /\ clock - entry.timestamp < CACHE_DURATION_MINUTES

\* The names the LIST of a folder yields after the filter
\* filename.lower().endswith('.pdf').
MetadataListing(files, subdir) ==
    {f \in files[subdir] : EndsWith(Lower(f), PDF)}

\* A variant of _get_files_with_metadata whose failed LIST stores an empty
\* snapshot with the time of the call.
get_files_with_metadata_storing_failure(cache, files, subdir, clock, reachable) ==
    IF CacheValid(cache[subdir], clock)
    THEN [files |-> cache[subdir].files, cache |-> cache, calls |-> <<>>, raised |-> FALSE]
    ELSE IF reachable
    THEN [files |-> MetadataListing(files, subdir),
          cache |-> [cache EXCEPT ![subdir] = Entry(MetadataListing(files, subdir), clock)],
          calls |-> <<Call("LIST", subdir, TRUE)>>, raised |-> FALSE]
    ELSE [files |-> {}, cache |-> [cache EXCEPT ![subdir] = Entry({}, clock)],
          calls |-> <<Call("LIST", subdir, FALSE)>>, raised |-> FALSE]

\* _get_files_with_metadata(subdir): the snapshot of a valid entry; otherwise
\* a LIST of the folder, stored with the time of the call; an empty list, and
\* the cache as it was, when the session or the LIST fails.
get_files_with_metadata(cache, files, subdir, clock, reachable) ==
    IF CacheValid(cache[subdir], clock)
    THEN [files |-> cache[subdir].files, cache |-> cache, calls |-> <<>>, raised |-> FALSE]
    ELSE IF reachable
    THEN [files |-> MetadataListing(files, subdir),
          cache |-> [cache EXCEPT ![subdir] = Entry(MetadataListing(files, subdir), clock)],
          calls |-> <<Call("LIST", subdir, TRUE)>>, raised |-> FALSE]
    ELSE [files |-> {}, cache |-> cache, calls |-> <<Call("LIST", subdir, FALSE)>>,
          raised |-> FALSE]

\* list_files_in_directory(subdir, with_metadata=True).
list_files_with_metadata(cache, files, subdir, clock, reachable) ==
    get_files_with_metadata(cache, files, subdir, clock, reachable)

\* find_files_by_cedula(remote_subdir, cedula, with_metadata=True): ValueError
\* for a cedula that is empty or not all digits, otherwise the entries of the
\* folder's metadata whose name contains the cedula.
find_files_with_metadata(cache, files, remote_subdir, cedula, clock, reachable) ==
    IF Len(cedula) = 0 \/ ~IsDigitStr(cedula)
    THEN [files |-> {}, cache |-> cache, calls |-> <<>>, raised |-> TRUE]
    ELSE LET got == get_files_with_metadata(cache, files, remote_subdir, clock, reachable)
         IN  [got EXCEPT !.files = {f \in got.files : Contains(f, cedula)}]

\* clear_metadata_cache(subdir): the entry of one folder, or every entry when
\* subdir is None.
clear_metadata_cache(cache, subdir) ==
    IF subdir = NULL THEN NoCache ELSE [cache EXCEPT ![subdir] = NoEntry]

\* upload_file(local_path, remote_subdir, filename): STOR in a session of its
\* own; (None, None) on any failure.
upload_file(files, remote_subdir, filename, reachable) ==
    IF reachable
    THEN [ok |-> TRUE, files |-> [files EXCEPT ![remote_subdir] = @ \cup {filename}]]
    ELSE [ok |-> FALSE, files |-> files]

\* rename_file(remote_subdir, old_name, new_name): RNFR/RNTO; False on any
\* failure, a missing source included.
rename_file(files, remote_subdir, old_name, new_name, reachable) ==
    IF reachable /\ old_name \in files[remote_subdir]
    THEN [ok |-> TRUE,
          files |-> [files EXCEPT ![remote_subdir] = (@ \ {old_name}) \cup {new_name}]]
    ELSE [ok |-> FALSE, files |-> files]

\* move_file(old_subdir, new_subdir, filename): SIZE of the source, then a
\* rename across the folders; None when the source is missing or on any
\* failure.
move_file(files, old_subdir, new_subdir, filename, reachable) ==
    IF reachable /\ filename \in files[old_subdir]
    THEN [ok |-> TRUE,
          files |-> [f \in Folders |->
                       IF f = new_subdir THEN files[f] \cup {filename}
                       ELSE IF f = old_subdir THEN files[f] \ {filename}
                       ELSE files[f]]]
    ELSE [ok |-> FALSE, files |-> files]

\* What the server does with a DELE: "ok", "unreachable" (no session), or
\* "refused" (error_perm other than 550).
DeleteOutcomes == {"ok", "unreachable", "refused"}

\* delete_file(remote_subdir, filename): False for a missing file (550) and
\* for a failed session; any other error_perm is raised again.
delete_file(files, remote_subdir, filename, outcome) ==
    IF outcome = "refused"
    THEN [ok |-> FALSE, raised |-> TRUE, files |-> files]
    ELSE IF outcome = "ok" /\ filename \in files[remote_subdir]
    THEN [ok |-> TRUE, raised |-> FALSE,
          files |-> [files EXCEPT ![remote_subdir] = @ \ {filename}]]
    ELSE [ok |-> FALSE, raised |-> FALSE, files |-> files]

\* -------------------------------------------- the cache and the single operations

\* Last minute the clock reaches.
MaxMinutes == 6

\* Names the single operations store, the second with an upper-case extension.
StoredNames ==
    { <<"1", "2", ".", "p", "d", "f">>,
      <<"3", "4", ".", "P", "D", "F">> }

\* The name that comes and goes while the clock runs.
CachedNames == { <<"1", "2", ".", "p", "d", "f">> }

\* Identifiers asked of the cached search; the last is not a number.
FindCedulas == { <<"1", "2">>, <<"x">> }

\* The record of one repository operation: its folders, the cedula or file
\* name it was given, the minute it ran, the entry its folder had when it
\* started, what it returned and whether it raised.
RepoEvent(op, folder, target, arg, at, before, ok, result, raised) ==
    [op |-> op, folder |-> folder, target |-> target, arg |-> arg, at |-> at,
     before |-> before, ok |-> ok, result |-> result, raised |-> raised]

NoRepoEvent ==
    RepoEvent("none", "recientes", "recientes", <<>>, 0, NoEntry, FALSE, {}, FALSE)

InitCache ==
    /\ conversation_state = NULL
    /\ conversation_data = NoData
    /\ is_active = TRUE
    /\ payment_users = Registry
    /\ ftp_files = [f \in Folders |-> IF f = "recientes" THEN CachedNames ELSE {}]
    /\ calls = <<>>
    /\ last = NoRepoEvent
    /\ inflight = NoHandlers
    /\ base = Row(NULL, NoData, TRUE)
    /\ probe = NoProbe
    /\ file_metadata_cache = NoCache
    /\ now = 0
    /\ messages = <<>>

\* A minute passes.
Tick ==
    /\ now < MaxMinutes
    /\ now' = now + 1
    /\ UNCHANGED <<conversation_state, conversation_data, is_active, payment_users,
                   ftp_files, calls, last, inflight, base, probe,
                   file_metadata_cache, messages>>

\* list_files_in_directory(subdir, with_metadata=True).
ListFiles ==
    \E subdir \in Folders : \E reachable \in BOOLEAN :
      \E got \in {list_files_with_metadata(file_metadata_cache, ftp_files, subdir, now,
                                           reachable)} :
        /\ file_metadata_cache' = got.cache
        /\ calls' = got.calls
        /\ last' = RepoEvent("list", subdir, subdir, <<>>, now,
                             file_metadata_cache[subdir], TRUE, got.files, got.raised)
        /\ UNCHANGED <<conversation_state, conversation_data, is_active, payment_users,
                       ftp_files, inflight, base, probe, now, messages>>

\* find_files_by_cedula(remote_subdir, cedula, with_metadata=True).
FindFiles(cedulas) ==
    \E subdir \in Folders : \E cedula \in cedulas : \E reachable \in BOOLEAN :
      \E got \in {find_files_with_metadata(file_metadata_cache, ftp_files, subdir, cedula,
                                           now, reachable)} :
        /\ file_metadata_cache' = got.cache
        /\ calls' = got.calls
        /\ last' = RepoEvent("find", subdir, subdir, cedula, now,
                             file_metadata_cache[subdir], ~got.raised, got.files,
                             got.raised)
        /\ UNCHANGED <<conversation_state, conversation_data, is_active, payment_users,
                       ftp_files, inflight, base, probe, now, messages>>

\* upload_file(local_path, remote_subdir, filename).
UploadFile(names) ==
    \E subdir \in Folders : \E filename \in names : \E reachable \in BOOLEAN :
      \E done \in {upload_file(ftp_files, subdir, filename, reachable)} :
        /\ ftp_files' = done.files
        /\ calls' = <<Call("STOR", subdir, done.ok)>>
        /\ last' = RepoEvent("upload", subdir, subdir, filename, now,
                             file_metadata_cache[subdir], done.ok, {}, FALSE)
        /\ UNCHANGED <<conversation_state, conversation_data, is_active, payment_users,
                       inflight, base, probe, file_metadata_cache, now, messages>>

\* rename_file(remote_subdir, old_name, new_name).
RenameFile ==
    \E subdir \in Folders : \E old_name \in StoredNames :
      \E new_name \in StoredNames \ {old_name} : \E reachable \in BOOLEAN :
      \E done \in {rename_file(ftp_files, subdir, old_name, new_name, reachable)} :
        /\ ftp_files' = done.files
        /\ calls' = <<Call("RNFR", subdir, done.ok)>>
        /\ last' = RepoEvent("rename", subdir, subdir, new_name, now,
                             file_metadata_cache[subdir], done.ok, {}, FALSE)
        /\ UNCHANGED <<conversation_state, conversation_data, is_active, payment_users,
                       inflight, base, probe, file_metadata_cache, now, messages>>

\* move_file(old_subdir, new_subdir, filename).
MoveFile ==
    \E old_subdir \in Folders : \E new_subdir \in Folders \ {old_subdir} :
      \E filename \in StoredNames : \E reachable \in BOOLEAN :
      \E done \in {move_file(ftp_files, old_subdir, new_subdir, filename, reachable)} :
        /\ ftp_files' = done.files
        /\ calls' = <<Call("RNFR", old_subdir, done.ok)>>
        /\ last' = RepoEvent("move", old_subdir, new_subdir, filename, now,
                             file_metadata_cache[old_subdir], done.ok, {}, FALSE)
        /\ UNCHANGED <<conversation_state, conversation_data, is_active, payment_users,
                       inflight, base, probe, file_metadata_cache, now, messages>>

\* delete_file(remote_subdir, filename).
DeleteFile(names) ==
    \E subdir \in Folders : \E filename \in names : \E outcome \in DeleteOutcomes :
      \E done \in {delete_file(ftp_files, subdir, filename, outcome)} :
        /\ ftp_files' = done.files
        /\ calls' = <<Call("DELE", subdir, done.ok)>>
        /\ last' = RepoEvent("delete", subdir, subdir, filename, now,
                             file_metadata_cache[subdir], done.ok, {}, done.raised)
        /\ UNCHANGED <<conversation_state, conversation_data, is_active, payment_users,
                       inflight, base, probe, file_metadata_cache, now, messages>>

NextCache ==
    \/ Tick
    \/ ListFiles
    \/ FindFiles(FindCedulas)
    \/ UploadFile(CachedNames)
    \/ DeleteFile(CachedNames)

SpecCache == InitCache /\ [][NextCache]_vars

\* The single operations at one moment: the clock stands still.
InitSingle ==
    /\ conversation_state = NULL
    /\ conversation_data = NoData
    /\ is_active = TRUE
    /\ payment_users = Registry
    /\ ftp_files = [f \in Folders |-> IF f = "recientes" THEN StoredNames ELSE {}]
    /\ calls = <<>>
    /\ last = NoRepoEvent
    /\ inflight = NoHandlers
    /\ base = Row(NULL, NoData, TRUE)
    /\ probe = NoProbe
    /\ file_metadata_cache = NoCache
    /\ now = 0
    /\ messages = <<>>

NextSingle ==
    ListFiles \/ UploadFile(StoredNames) \/ RenameFile \/ MoveFile \/ DeleteFile(StoredNames)

SpecSingle == InitSingle /\ [][NextSingle]_vars

\* ------------------------------------------------------ the batch endpoints

\* The cap of upload_multiple_receipts' thread pool.
UPLOAD_MAX_WORKERS == 3

\* Variant: one worker for every item, whatever the cap.
max_workers_uncapped(n, cap) == n

\* min(len(items), cap)
max_workers(n, cap) == IF n < cap THEN n ELSE cap

\* "%02d" % n
TwoDigits(n) == <<DigitChar(n \div 10), DigitChar(n % 10)>>

\* datetime.now().strftime("%Y%m%d_%H%M%S"), the clock counting the minutes
\* of the first hour of the year.
Stamp(clock) ==
    NumText(CurrentYear) \o <<"0", "1", "0", "1", "_", "0", "0">> \o TwoDigits(clock)
        \o <<"0", "0">>

\* f"{name_without_ext}_{timestamp}.pdf"
UploadedName(filename, clock) ==
    Remove(Remove(filename, PDF), PDFUpper) \o <<"_">> \o Stamp(clock) \o PDF

\* One UploadFile of the request and what the environment does with it:
\* whether file.read() returns, and the results of the first and the second
\* upload_file_to_ftp.
UploadItem(filename, readable, first, second) ==
    [filename |-> filename, readable |-> readable, first |-> first, second |-> second]

\* The dictionary a worker returns for one item.  attempts is the number of
\* remote attempts it made.
ItemResult(success, item, filename, cedula, error, attempts) ==
    [success |-> success, item |-> item, filename |-> filename, cedula |-> cedula,
     error |-> error, attempts |-> attempts]

\* What the work on a list of items leaves: the results in order, the store
\* and the remote calls made.
Worked(results, files, log) == [results |-> results, files |-> files, calls |-> log]

\* Variant of the steps: the result of the first upload is final.
AttemptOnce(files, folder, item, filename, cedula) ==
    LET first == upload_file(files, folder, filename, item.first)
    IN  IF ~EndsWith(Lower(item.filename), PDF)
        THEN Worked(<<ItemResult(FALSE, item.filename, item.filename, <<>>, "not_pdf", 0)>>,
                    files, <<>>)
        ELSE IF cedula = NotAvailable
        THEN Worked(<<ItemResult(FALSE, item.filename, item.filename, <<>>, "no_cedula", 0)>>,
                    files, <<>>)
        ELSE IF ~item.readable
        THEN Worked(<<ItemResult(FALSE, item.filename, item.filename, <<>>, "processing", 0)>>,
                    files, <<>>)
        ELSE IF first.ok
        THEN Worked(<<ItemResult(TRUE, item.filename, filename, cedula, "", 1)>>,
                    first.files, <<Call("STOR", filename, TRUE)>>)
        ELSE Worked(<<ItemResult(FALSE, item.filename, item.filename, <<>>, "upload", 1)>>,
                    files, <<Call("STOR", filename, FALSE)>>)

\* Variant: no second attempt after a failed upload.
process_single_file_once(files, folder, item, clock) ==
    AttemptOnce(files, folder, item, UploadedName(item.filename, clock),
                extract_cedula_from_filename(item.filename))

\* The steps of process_single_file, given the name the file is stored under
\* and the identifier read from its name: the checks of the name, the read
\* of the content, the upload and, after a failed upload, one more upload.
Attempt(files, folder, item, filename, cedula) ==
    LET first  == upload_file(files, folder, filename, item.first)
        second == upload_file(first.files, folder, filename, item.second)
    IN  IF ~EndsWith(Lower(item.filename), PDF)
        THEN Worked(<<ItemResult(FALSE, item.filename, item.filename, <<>>, "not_pdf", 0)>>,
                    files, <<>>)
        ELSE IF cedula = NotAvailable
        THEN Worked(<<ItemResult(FALSE, item.filename, item.filename, <<>>, "no_cedula", 0)>>,
                    files, <<>>)
        ELSE IF ~item.readable
        THEN Worked(<<ItemResult(FALSE, item.filename, item.filename, <<>>, "processing", 0)>>,
                    files, <<>>)
        ELSE IF first.ok
        THEN Worked(<<ItemResult(TRUE, item.filename, filename, cedula, "", 1)>>,
                    first.files, <<Call("STOR", filename, TRUE)>>)
        ELSE IF second.ok
        THEN Worked(<<ItemResult(TRUE, item.filename, filename, cedula, "", 2)>>,
                    second.files,
                    <<Call("STOR", filename, FALSE), Call("STOR", filename, TRUE)>>)
        ELSE Worked(<<ItemResult(FALSE, item.filename, item.filename, <<>>, "upload", 2)>>,
                    files,
                    <<Call("STOR", filename, FALSE), Call("STOR", filename, FALSE)>>)

\* process_single_file(file, executor).
process_single_file(files, folder, item, clock) ==
    Attempt(files, folder, item, UploadedName(item.filename, clock),
            extract_cedula_from_filename(item.filename))

\* asyncio.gather over one batch of uploads: every item is worked on and the
\* results come back in the order of the items.
RECURSIVE GatherUploads(_, _, _, _)
GatherUploads(files, folder, batch, clock) ==
    IF Len(batch) = 0 THEN Worked(<<>>, files, <<>>)
    ELSE LET head == process_single_file(files, folder, batch[1], clock)
             rest == GatherUploads(head.files, folder, Tail(batch), clock)
         IN  Worked(head.results \o rest.results, rest.files, head.calls \o rest.calls)

\* for i in range(0, len(files), batch_size): the batches one after the
\* other, results.extend(batch_results).
RECURSIVE UploadBatches(_, _, _, _, _)
UploadBatches(files, folder, items, batch_size, clock) ==
    IF Len(items) = 0 THEN Worked(<<>>, files, <<>>)
    ELSE LET n    == max_workers(Len(items), batch_size)
             head == GatherUploads(files, folder, SubSeq(items, 1, n), clock)
             rest == UploadBatches(head.files, folder, SubSeq(items, n + 1, Len(items)),
                                   batch_size, clock)
         IN  Worked(head.results \o rest.results, rest.files, head.calls \o rest.calls)

\* The body a batch endpoint returns; status 400 answers a request the
\* endpoint rejects before working on any item.
Response(status, succeeded, failed) ==
    [status |-> status, success |-> Len(failed) = 0, succeeded |-> succeeded,
     failed |-> failed, total_succeeded |-> Len(succeeded), total_failed |-> Len(failed)]

\* Variant: the cache is left as it is after the uploads.
UploadPurgeNever(cache, folder, uploaded_files) == cache

\* if uploaded_files: clear_metadata_cache(folder)
UploadPurge(cache, folder, uploaded_files) ==
    IF Len(uploaded_files) > 0 THEN clear_metadata_cache(cache, folder) ELSE cache

\* The separation of the results into uploaded_files and failed_files, and
\* the response.
UploadResponse(results) ==
    Response(200, SelectSeq(results, LAMBDA r : r.success),
             SelectSeq(results, LAMBDA r : ~r.success))

\* ------------------------------------------- the batch endpoints as a whole

\* What a batch endpoint leaves: its response, the store, the cache and the
\* remote calls it made.
Handled(response, files, cache, log) ==
    [response |-> response, files |-> files, cache |-> cache, calls |-> log]

\* upload_multiple_receipts(files, folder).
upload_multiple_receipts(files, cache, folder, items, clock) ==
    IF Len(items) = 0 \/ folder \notin Folders
    THEN Handled(Response(400, <<>>, <<>>), files, cache, <<>>)
    ELSE LET worked   == UploadBatches(files, folder, items,
                                       max_workers(Len(items), UPLOAD_MAX_WORKERS), clock)
             response == UploadResponse(worked.results)
         IN  Handled(response, worked.files,
                     UploadPurge(cache, folder, response.succeeded), worked.calls)

\* The folders as they are written in a receipt id.
FolderText ==
    [f \in Folders |->
       IF f = "recientes" THEN <<"r", "e", "c", "i", "e", "n", "t", "e", "s">>
       ELSE <<"a", "n", "t", "e", "r", "i", "o", "r", "e", "s">>]

\* The position of the first "_" of a text, 0 when it has none.
Underscore(s) ==
    IF \E i \in 1..Len(s) : s[i] = "_"
    THEN CHOOSE i \in 1..Len(s) : s[i] = "_" /\ \A j \in 1..(i - 1) : s[j] # "_"
    ELSE 0

\* receipt_id.split("_", 1): the text before the first "_" and the text
\* after it.
SplitId(receipt_id) ==
    [folder   |-> SubSeq(receipt_id, 1, Underscore(receipt_id) - 1),
     filename |-> SubSeq(receipt_id, Underscore(receipt_id) + 1, Len(receipt_id))]

\* folder in ["recientes", "anteriores"]
IsFolderText(text) == \E f \in Folders : FolderText[f] = text

FolderNamed(text) == CHOOSE f \in Folders : FolderText[f] = text

\* One id of a delete or move request and what the store does with it.
BatchItem(receipt_id, outcome) == [filename |-> receipt_id, outcome |-> outcome]

\* The cap of delete_receipts_batch's thread pool.
DELETE_MAX_WORKERS == 5

\* process_single_delete(receipt_id, executor): the id is split, the file
\* deleted; whatever is raised on the way becomes the item's failure.
process_single_delete(files, item) ==
    LET id   == item.filename
        part == SplitId(id)
        done == delete_file(files, FolderNamed(part.folder), part.filename, item.outcome)
    IN  IF Underscore(id) = 0
        THEN Worked(<<ItemResult(FALSE, id, <<>>, <<>>, "invalid_id", 0)>>, files, <<>>)
        ELSE IF ~IsFolderText(part.folder)
        THEN Worked(<<ItemResult(FALSE, id, <<>>, <<>>, "invalid_folder", 0)>>, files, <<>>)
        ELSE IF done.raised
        THEN Worked(<<ItemResult(FALSE, id, part.filename, <<>>, "processing", 1)>>, files,
                    <<Call("DELE", id, FALSE)>>)
        ELSE IF done.ok
        THEN Worked(<<ItemResult(TRUE, id, part.filename, <<>>, "", 1)>>, done.files,
                    <<Call("DELE", id, TRUE)>>)
        ELSE Worked(<<ItemResult(FALSE, id, part.filename, <<>>, "delete", 1)>>, files,
                    <<Call("DELE", id, FALSE)>>)

\* Variant: the batch stops at the first item that fails.
RECURSIVE GatherDeletesUntilFailure(_, _)
GatherDeletesUntilFailure(files, batch) ==
    IF Len(batch) = 0 THEN Worked(<<>>, files, <<>>)
    ELSE LET head == process_single_delete(files, batch[1])
             rest == GatherDeletesUntilFailure(head.files, Tail(batch))
         IN  IF head.results[1].success
             THEN Worked(head.results \o rest.results, rest.files, head.calls \o rest.calls)
             ELSE head

\* asyncio.gather over one batch of deletions.
RECURSIVE GatherDeletes(_, _)
GatherDeletes(files, batch) ==
    IF Len(batch) = 0 THEN Worked(<<>>, files, <<>>)
    ELSE LET head == process_single_delete(files, batch[1])
             rest == GatherDeletes(head.files, Tail(batch))
         IN  Worked(head.results \o rest.results, rest.files, head.calls \o rest.calls)

\* for i in range(0, len(ids), batch_size)
RECURSIVE DeleteBatches(_, _, _)
DeleteBatches(files, items, batch_size) ==
    IF Len(items) = 0 THEN Worked(<<>>, files, <<>>)
    ELSE LET n    == max_workers(Len(items), batch_size)
             head == GatherDeletes(files, SubSeq(items, 1, n))
             rest == DeleteBatches(head.files, SubSeq(items, n + 1, Len(items)), batch_size)
         IN  Worked(head.results \o rest.results, rest.files, head.calls \o rest.calls)

\* The folders of the ids that succeeded: affected_dirs of
\* delete_receipts_batch.
SourceFolders(succeeded) ==
    {FolderNamed(SplitId(succeeded[i].item).folder) : i \in 1..Len(succeeded)}

\* Variant: the whole cache is cleared, whatever the folders.
PurgeEveryFolder(cache, affected_dirs) == NoCache

\* for folder in affected_dirs: clear_metadata_cache(folder)
PurgeFolders(cache, affected_dirs) ==
    [f \in Folders |-> IF f \in affected_dirs THEN NoEntry ELSE cache[f]]

\* delete_receipts_batch(request).
delete_receipts_batch(files, cache, items) ==
    IF Len(items) = 0
    THEN Handled(Response(400, <<>>, <<>>), files, cache, <<>>)
    ELSE LET worked   == DeleteBatches(files, items,
                                       max_workers(Len(items), DELETE_MAX_WORKERS))
             response == Response(200, SelectSeq(worked.results, LAMBDA r : r.success),
                                  SelectSeq(worked.results, LAMBDA r : ~r.success))
         IN  Handled(response, worked.files,
                     PurgeFolders(cache, SourceFolders(response.succeeded)), worked.calls)

\* The cap of move_receipts' thread pool.
MOVE_MAX_WORKERS == 4

\* move_file_in_ftp(source_subdir, target_subdir, filename): whether
\* move_file returned a path.
move_file_in_ftp(files, source_subdir, target_subdir, filename, reachable) ==
    move_file(files, source_subdir, target_subdir, filename, reachable)

\* process_single_move(receipt_id, executor).
process_single_move(files, target_folder, item) ==
    LET id   == item.filename
        part == SplitId(id)
        done == move_file_in_ftp(files, FolderNamed(part.folder), target_folder,
                                 part.filename, item.outcome = "ok")
    IN  IF Underscore(id) = 0
        THEN Worked(<<ItemResult(FALSE, id, <<>>, <<>>, "invalid_id", 0)>>, files, <<>>)
        ELSE IF ~IsFolderText(part.folder)
        THEN Worked(<<ItemResult(FALSE, id, <<>>, <<>>, "invalid_folder", 0)>>, files, <<>>)
        ELSE IF FolderNamed(part.folder) = target_folder
        THEN Worked(<<ItemResult(FALSE, id, part.filename, <<>>, "already_there", 0)>>,
                    files, <<>>)
        ELSE IF done.ok
        THEN Worked(<<ItemResult(TRUE, id, part.filename, <<>>, "", 1)>>, done.files,
                    <<Call("RNFR", id, TRUE)>>)
        ELSE Worked(<<ItemResult(FALSE, id, part.filename, <<>>, "move", 1)>>, files,
                    <<Call("RNFR", id, FALSE)>>)

\* asyncio.gather over one batch of moves.
RECURSIVE GatherMoves(_, _, _)
GatherMoves(files, target_folder, batch) ==
    IF Len(batch) = 0 THEN Worked(<<>>, files, <<>>)
    ELSE LET head == process_single_move(files, target_folder, batch[1])
             rest == GatherMoves(head.files, target_folder, Tail(batch))
         IN  Worked(head.results \o rest.results, rest.files, head.calls \o rest.calls)

\* for i in range(0, len(ids), batch_size)
RECURSIVE MoveBatches(_, _, _, _)
MoveBatches(files, target_folder, items, batch_size) ==
    IF Len(items) = 0 THEN Worked(<<>>, files, <<>>)
    ELSE LET n    == max_workers(Len(items), batch_size)
             head == GatherMoves(files, target_folder, SubSeq(items, 1, n))
             rest == MoveBatches(head.files, target_folder,
                                 SubSeq(items, n + 1, Len(items)), batch_size)
         IN  Worked(head.results \o rest.results, rest.files, head.calls \o rest.calls)

\* move_receipts(request): the cache of the source folders of the moved ids
\* and of the target folder is cleared.
move_receipts(files, cache, items, target_folder) ==
    IF Len(items) = 0 \/ target_folder \notin Folders
    THEN Handled(Response(400, <<>>, <<>>), files, cache, <<>>)
    ELSE LET worked   == MoveBatches(files, target_folder, items,
                                     max_workers(Len(items), MOVE_MAX_WORKERS))
             response == Response(200, SelectSeq(worked.results, LAMBDA r : r.success),
                                  SelectSeq(worked.results, LAMBDA r : ~r.success))
         IN  Handled(response, worked.files,
                     IF Len(response.succeeded) > 0
                     THEN PurgeFolders(cache, SourceFolders(response.succeeded)
                                                 \cup {target_folder})
                     ELSE cache,
                     worked.calls)

\* --------------------------------------------- a batch of uploads and the cache

\* A file name with an identifier.
ReceiptName == <<"1", "2", "3", "4", "5", "6", "7", ".", "p", "d", "f">>

\* Names of the uploaded files of a request: the second holds a number too
\* short to be an identifier.
UploadNames == { ReceiptName, <<"1", "2", ".", "p", "d", "f">> }

\* The items a request may carry: each name with both attempts succeeding
\* and, for the name the upload is attempted for, a first attempt that fails
\* before a second that succeeds or fails.
UploadItems ==
    {UploadItem(n, TRUE, TRUE, TRUE) : n \in UploadNames}
        \cup {UploadItem(ReceiptName, TRUE, FALSE, second) : second \in BOOLEAN}

\* Most items of a request followed together with the cache.
MaxUploadItems == 3

UploadRequests ==
    UNION {[1..n -> UploadItems] : n \in 0..MaxUploadItems}

\* The folder parameter of a request: a folder, or a name that is none.
RequestFolders == Folders \cup {"otros"}

\* The identifier the cached search is asked for after an upload.
UploadCedulas == { <<"1", "2", "3", "4", "5", "6", "7">> }

\* The request upload_multiple_receipts is working on: its phase ("idle",
\* "running" between the uploads and the return, "returned"), its folder, the
\* workers' results, the response, whether the return purged an entry, and
\* the names the returned requests uploaded to each folder.
UploadRequest(phase, folder, results, response, purged, returned) ==
    [fn |-> "upload_multiple_receipts", phase |-> phase, folder |-> folder,
     results |-> results, response |-> response, purged |-> purged, returned |-> returned]

NoResponse == Response(0, <<>>, <<>>)

InitUpload ==
    /\ conversation_state = NULL
    /\ conversation_data = NoData
    /\ is_active = TRUE
    /\ payment_users = Registry
    /\ ftp_files = [f \in Folders |->
                      IF f = "recientes"
                      THEN {ReceiptName}
                      ELSE {}]
    /\ calls = <<>>
    /\ last = NoRepoEvent
    /\ inflight = NoHandlers
    /\ base = Row(NULL, NoData, TRUE)
    /\ probe = UploadRequest("idle", "recientes", <<>>, NoResponse, FALSE,
                             [f \in Folders |-> {}])
    /\ file_metadata_cache = NoCache
    /\ now = 0
    /\ messages = <<>>

\* upload_multiple_receipts up to the end of its batches: a request without
\* files or with an unknown folder is answered 400; otherwise every batch is
\* worked on.  The handler awaits its workers, so other requests run before
\* it goes on.  One request is followed, with the reads before, during and
\* after it.
UploadManyWork ==
    /\ probe.phase = "idle"
    /\ \E folder \in RequestFolders : \E items \in UploadRequests :
         IF Len(items) = 0 \/ folder \notin Folders
         THEN /\ probe' = [probe EXCEPT !.phase = "returned", !.folder = "recientes",
                                        !.results = <<>>, !.purged = FALSE,
                                        !.response = Response(400, <<>>, <<>>)]
              /\ calls' = <<>>
              /\ last' = RepoEvent("upload_many", "recientes", "recientes", <<>>, now,
                                   file_metadata_cache["recientes"], FALSE, {}, TRUE)
              /\ UNCHANGED ftp_files
         ELSE \E worked \in {UploadBatches(ftp_files, folder, items,
                                           max_workers(Len(items), UPLOAD_MAX_WORKERS),
                                           now)} :
                /\ ftp_files' = worked.files
                /\ calls' = worked.calls
                /\ probe' = [probe EXCEPT !.phase = "running", !.folder = folder,
                                          !.results = worked.results, !.purged = FALSE,
                                          !.response = NoResponse]
                /\ last' = RepoEvent("uploading", folder, folder, <<>>, now,
                                     file_metadata_cache[folder], FALSE, {}, FALSE)
    /\ UNCHANGED <<conversation_state, conversation_data, is_active, payment_users,
                   inflight, base, file_metadata_cache, now, messages>>

\* upload_multiple_receipts from the separation of the results to the return.
UploadManyReturn ==
    /\ probe.phase = "running"
    /\ \E response \in {UploadResponse(probe.results)} :
         /\ file_metadata_cache' =
                UploadPurge(file_metadata_cache, probe.folder, response.succeeded)
         /\ probe' = [probe EXCEPT
                        !.phase = "returned",
                        !.response = response,
                        !.purged = file_metadata_cache[probe.folder].cached
                                       /\ Len(response.succeeded) > 0,
                        !.returned[probe.folder] =
                            @ \cup {response.succeeded[i].filename :
                                      i \in 1..Len(response.succeeded)}]
         /\ last' = RepoEvent("upload_many", probe.folder, probe.folder, <<>>, now,
                              file_metadata_cache[probe.folder],
                              Len(response.succeeded) > 0, {}, FALSE)
    /\ calls' = <<>>
    /\ UNCHANGED <<conversation_state, conversation_data, is_active, payment_users,
                   ftp_files, inflight, base, now, messages>>

NextUpload == ListFiles \/ FindFiles(UploadCedulas) \/ UploadManyWork \/ UploadManyReturn

SpecUpload == InitUpload /\ [][NextUpload]_vars

\* ------------------------------------------------ one batch request at a time

\* Most items of an upload, delete and move request: one more than the cap
\* of the endpoint's thread pool, so that a second batch is worked on.
MaxUploadBatch == 4
MaxDeleteBatch == 6
MaxMoveBatch == 5

\* receipt ids are f"{folder}_{filename}".
ReceiptId(folder_text, filename) == folder_text \o <<"_">> \o filename

BatchName(n) == <<DigitChar(n)>> \o PDF

\* The store the requests find, and the cache after a listing of both
\* folders.
BatchStore ==
    [f \in Folders |->
       IF f = "recientes" THEN {BatchName(1), BatchName(2)} ELSE {BatchName(4)}]

BatchCache == [f \in Folders |-> Entry(BatchStore[f], 0)]

\* Uploads: the items of UploadItems, a file that is no PDF and one whose
\* content cannot be read.
UploadBatchItems ==
    UploadItems
        \cup {UploadItem(<<"1", "2", "3", "4", "5", "6", "7", ".", "t", "x", "t">>,
                         TRUE, TRUE, TRUE),
              UploadItem(ReceiptName, FALSE, TRUE, TRUE)}

\* Deletions: two files of the store, a deletion the server refuses, and an
\* id without "_".
DeleteBatchItems ==
    { BatchItem(ReceiptId(FolderText["recientes"], BatchName(1)), "ok"),
      BatchItem(ReceiptId(FolderText["recientes"], BatchName(2)), "ok"),
      BatchItem(ReceiptId(FolderText["recientes"], BatchName(1)), "refused"),
      BatchItem(BatchName(1), "ok") }

\* Moves: a file of each folder, a move that fails, and an id whose prefix
\* is no folder.
MoveBatchItems ==
    { BatchItem(ReceiptId(FolderText["recientes"], BatchName(1)), "ok"),
      BatchItem(ReceiptId(FolderText["anteriores"], BatchName(4)), "ok"),
      BatchItem(ReceiptId(FolderText["recientes"], BatchName(2)), "unreachable"),
      BatchItem(ReceiptId(<<"o", "t", "r", "o", "s">>, BatchName(1)), "ok") }

SeqsUpTo(S, n) == UNION {[1..k -> S] : k \in 0..n}

\* A request: the endpoint, its folder parameter (the target of a move), its
\* items and, once handled, its response.
BatchRequest(fn, folder, items) ==
    [fn |-> fn, done |-> FALSE, folder |-> folder, items |-> items,
     response |-> NoResponse]

BatchRequests ==
    {BatchRequest("upload_multiple_receipts", f, items) :
        f \in RequestFolders, items \in SeqsUpTo(UploadBatchItems, MaxUploadBatch)}
    \cup {BatchRequest("delete_receipts_batch", "recientes", items) :
            items \in SeqsUpTo(DeleteBatchItems, MaxDeleteBatch)}
    \cup {BatchRequest("move_receipts", f, items) :
            f \in RequestFolders, items \in SeqsUpTo(MoveBatchItems, MaxMoveBatch)}

InitBatch ==
    /\ conversation_state = NULL
    /\ conversation_data = NoData
    /\ is_active = TRUE
    /\ payment_users = Registry
    /\ ftp_files = BatchStore
    /\ calls = <<>>
    /\ last = NoRepoEvent
    /\ inflight = NoHandlers
    /\ base = Row(NULL, NoData, TRUE)
    /\ probe \in BatchRequests
    /\ file_metadata_cache = BatchCache
    /\ now = 0
    /\ messages = <<>>

\* The request is handled from its first line to its return.
Answer(out) ==
    /\ probe' = [probe EXCEPT !.done = TRUE, !.response = out.response]
    /\ ftp_files' = out.files
    /\ file_metadata_cache' = out.cache
    /\ calls' = out.calls
    /\ UNCHANGED <<conversation_state, conversation_data, is_active, payment_users,
                   last, inflight, base, now, messages>>

UploadMany ==
    /\ probe.fn = "upload_multiple_receipts" /\ ~probe.done
    /\ Answer(upload_multiple_receipts(ftp_files, file_metadata_cache, probe.folder,
                                       probe.items, now))

DeleteMany ==
    /\ probe.fn = "delete_receipts_batch" /\ ~probe.done
    /\ Answer(delete_receipts_batch(ftp_files, file_metadata_cache, probe.items))

MoveMany ==
    /\ probe.fn = "move_receipts" /\ ~probe.done
    /\ Answer(move_receipts(ftp_files, file_metadata_cache, probe.items, probe.folder))

NextBatch == UploadMany \/ DeleteMany \/ MoveMany

SpecBatch == InitBatch /\ [][NextBatch]_vars

\* ------------------------------------------ the remote store out of reach

\* The identifiers searched for: one the store's files carry, one they do
\* not, and one that is not a number.
FaultCedulas == { <<"1", "2">>, <<"3", "4">>, <<"a", "1", "2">> }

\* One call of a read of the remote store: the function, its arguments, what
\* the remote store does during it, and what the call gave back.
ReadCall(fn, folder, cedula, with_metadata, ftp, list_outcome) ==
    [fn |-> fn, folder |-> folder, cedula |-> cedula, with_metadata |-> with_metadata,
     ftp |-> ftp, list_outcome |-> list_outcome,
     done |-> FALSE, raised |-> FALSE, ok |-> FALSE, names |-> {}, receipts |-> <<>>]

ReadCalls ==
    {ReadCall("list_files_in_directory", f, <<>>, m, AllFtpOk, o) :
        f \in Folders, m \in BOOLEAN, o \in ListOutcomes}
    \cup {ReadCall("find_files_by_cedula", f, c, m, [AllFtpOk EXCEPT ![f] = o], "ok") :
        f \in Folders, c \in FaultCedulas, m \in BOOLEAN, o \in FtpOutcomes}
    \cup {ReadCall("get_last_two_receipts", "recientes", c, FALSE, ftp, "ok") :
        c \in FaultCedulas, ftp \in [Folders -> FtpOutcomes]}
    \cup {ReadCall("get_receipts_by_folder", f, c, FALSE, ftp, "ok") :
        f \in Folders \cup {"otros"}, c \in FaultCedulas, ftp \in [Folders -> FtpOutcomes]}

InitFault ==
    /\ conversation_state = NULL
    /\ conversation_data = NoData
    /\ is_active = TRUE
    /\ payment_users = Registry
    /\ ftp_files \in Stores
    /\ calls = <<>>
    /\ last = NoRepoEvent
    /\ inflight = NoHandlers
    /\ base = Row(NULL, NoData, TRUE)
    /\ probe \in ReadCalls
    /\ file_metadata_cache = NoCache
    /\ now = 0
    /\ messages = <<>>

Range(s) == {s[i] : i \in 1..Len(s)}

\* The call runs from its first line to its return or its raise.
Returned(raised, ok, names, receipts, cache, log) ==
    /\ probe' = [probe EXCEPT !.done = TRUE, !.raised = raised, !.ok = ok,
                              !.names = names, !.receipts = receipts]
    /\ file_metadata_cache' = cache
    /\ calls' = log
    /\ UNCHANGED <<conversation_state, conversation_data, is_active, payment_users,
                   ftp_files, last, inflight, base, now, messages>>

ListDirectory ==
    /\ probe.fn = "list_files_in_directory" /\ ~probe.done
    /\ IF probe.with_metadata
       THEN \E got \in {list_files_with_metadata(file_metadata_cache, ftp_files,
                                                 probe.folder, now,
                                                 probe.list_outcome = "ok")} :
              Returned(got.raised, ~got.raised, got.files, <<>>, got.cache, got.calls)
       ELSE \E got \in {list_files_in_directory(ftp_files, probe.folder,
                                                probe.list_outcome)} :
              Returned(got.raised, ~got.raised, got.result, <<>>, file_metadata_cache,
                       <<Call("NLST", probe.folder, probe.list_outcome = "ok")>>)

FindByCedula ==
    /\ probe.fn = "find_files_by_cedula" /\ ~probe.done
    /\ IF probe.with_metadata
       THEN \E got \in {find_files_with_metadata(file_metadata_cache, ftp_files,
                                                 probe.folder, probe.cedula, now,
                                                 probe.ftp[probe.folder] # "unreachable")} :
              Returned(got.raised, ~got.raised, got.files, <<>>, got.cache, got.calls)
       ELSE \E got \in {find_files_by_cedula(ftp_files, probe.folder, probe.cedula,
                                             probe.ftp[probe.folder])} :
              Returned(got.raised, ~got.raised, Range(got.result), <<>>,
                       file_metadata_cache,
                       <<Call("NLST", probe.folder, probe.ftp[probe.folder] = "ok")>>)

LastTwoReceipts ==
    /\ probe.fn = "get_last_two_receipts" /\ ~probe.done
    /\ \E got \in {get_last_two_receipts(ftp_files, probe.cedula,
                                         Env(TRUE, TRUE, TRUE, TRUE, TRUE, probe.ftp))} :
         Returned(FALSE, got.ok, {r.file_name : r \in Range(got.receipts)}, got.receipts,
                  file_metadata_cache, got.calls)

ReceiptsByFolder ==
    /\ probe.fn = "get_receipts_by_folder" /\ ~probe.done
    /\ \E got \in {get_receipts_by_folder(ftp_files, probe.cedula, probe.folder,
                                          Env(TRUE, TRUE, TRUE, TRUE, TRUE, probe.ftp))} :
         Returned(FALSE, got.ok, {r.file_name : r \in Range(got.receipts)}, got.receipts,
                  file_metadata_cache, got.calls)

NextFault == ListDirectory \/ FindByCedula \/ LastTwoReceipts \/ ReceiptsByFolder

SpecFault == InitFault /\ [][NextFault]_vars

\* ------------------------------------------------------- the webhook's messages

\* A row of the messages table (a Message); id is its primary key.
MessageRow(id, sender, content) == [id |-> id, sender |-> sender, content |-> content]

\* One element of value["messages"] of a webhook payload.
WebhookMessage(id, type, body, interactive_type, button_id) ==
    [id |-> id, type |-> type, body |-> body, interactive_type |-> interactive_type,
     button_id |-> button_id]

\* The text receive_webhook takes from a message: the body of a text message,
\* the id of the button of a button reply, "" otherwise.
message_text(message) ==
    IF message.type = "text" THEN message.body
    ELSE IF message.type = "interactive" /\ message.interactive_type = "button_reply"
    THEN message.button_id
    ELSE <<>>

\* Variant: the reply that was sent is stored as a row of the bot.
AutoReplyRowsRecorded(rows, out, env) ==
    IF out.response # "" /\ env.gw_reply
    THEN Append(rows, MessageRow(<<"bot_reply", 0>>, "bot", <<out.response>>))
    ELSE rows

\* What process_message stores of the reply it sent: nothing.
AutoReplyRows(rows, out, env) == rows

\* The progress of receive_webhook through value["messages"]: the rows of the
\* messages table, the contact's row, the calls made, how often
\* process_message was called for each message so far, and whether an
\* exception has ended the handler.
Progress(rows, row, log, invoked, raised) ==
    [rows |-> rows, row |-> row, calls |-> log, invoked |-> invoked, raised |-> raised]

\* The body of the loop once the message's row is committed: process_message
\* has run and left out; the call is counted.
Engaged(st, stored, out, env) ==
    Progress(AutoReplyRows(stored, out, env), out.row, st.calls \o out.calls,
             Append(st.invoked, 1), FALSE)

\* One turn of the loop of receive_webhook over value["messages"].  A message
\* without text is passed over; the row of a message with text is committed,
\* which raises when a row with its id exists, and then process_message is
\* awaited.  An exception leaves the loop for the handler's except clause,
\* so the messages after it are not looked at.
HandleMessage(message, st, users, files, env) ==
    IF st.raised \/ message_text(message) = <<>>
    THEN [st EXCEPT !.invoked = Append(@, 0)]
    ELSE IF \E i \in 1..Len(st.rows) : st.rows[i].id = message.id
    THEN [st EXCEPT !.invoked = Append(@, 0), !.raised = TRUE]
    ELSE Engaged(st, Append(st.rows, MessageRow(message.id, "user", message_text(message))),
                 process_message(message_text(message), st.row, users, files, env), env)

RECURSIVE HandleMessages(_, _, _, _, _)
HandleMessages(payload, st, users, files, env) ==
    IF payload = <<>> THEN st
    ELSE HandleMessages(Tail(payload), HandleMessage(Head(payload), st, users, files, env),
                        users, files, env)

\* What receive_webhook returns and leaves, given the loop's end.
Handed(st) ==
    [rows |-> st.rows, row |-> st.row, calls |-> st.calls, invoked |-> st.invoked,
     status |-> IF st.raised THEN "error" ELSE "ok"]

\* receive_webhook(request, db) for a payload of the messages field.
receive_webhook(payload, rows, row, users, files, env) ==
    Handed(HandleMessages(payload, Progress(rows, row, <<>>, <<>>, FALSE),
                          users, files, env))

\* send_message of routers/messages.py: an operator's message is sent and,
\* when the gateway accepted it, stored as a row of the bot whose id carries
\* the second of the call; the commit fails when that id exists.
send_message(rows, message_text_, clock, sent) ==
    LET id == <<"user_frontend", clock>>
    IN  IF sent /\ ~\E i \in 1..Len(rows) : rows[i].id = id
        THEN [ok |-> TRUE, rows |-> Append(rows, MessageRow(id, "bot", message_text_))]
        ELSE [ok |-> FALSE, rows |-> rows]

\* ------------------------------------------------ the webhook and its payloads

MaxPayload == 2

\* The ids the gateway gives the messages it delivers; it delivers a message
\* again when it chooses to.
MessageIds == { <<"wamid", 1>>, <<"wamid", 2>> }

\* The messages a payload may carry: a text with a body and one without, a
\* button reply with an id and one without, a reply of another interactive
\* type, and an image.
WebhookMessages ==
    UNION { { WebhookMessage(id, "text", <<"1">>, "", <<>>),
              WebhookMessage(id, "text", <<>>, "", <<>>),
              WebhookMessage(id, "interactive", <<>>, "button_reply", <<"2">>),
              WebhookMessage(id, "interactive", <<>>, "button_reply", <<>>),
              WebhookMessage(id, "interactive", <<>>, "list_reply", <<"2">>),
              WebhookMessage(id, "image", <<>>, "", <<>>) } : id \in MessageIds }

\* A payload carries up to MaxPayload messages, each message once.
Payloads ==
    {p \in UNION {[1..n -> WebhookMessages] : n \in 1..MaxPayload} :
        \A i \in 1..Len(p) : \A j \in 1..Len(p) : p[i].id = p[j].id => i = j}

\* What the gateway does to the automatic replies of one delivery.
WebhookEnvs == {Env(r, TRUE, TRUE, TRUE, TRUE, AllFtpOk) : r \in BOOLEAN}

\* The last request: a delivery of the webhook with how often process_message
\* was called for each of its messages, or a message of an operator; and
\* the rows of the bot there were before it.
Request(op, payload, invoked, status, replied, bot_before) ==
    [op |-> op, payload |-> payload, invoked |-> invoked, status |-> status,
     replied |-> replied, bot_before |-> bot_before]

NoRequest == Request("none", <<>>, <<>>, "ok", FALSE, <<>>)

BotRows(rows) == SelectSeq(rows, LAMBDA r : r.sender = "bot")

InitWebhook ==
    /\ conversation_state = NULL
    /\ conversation_data = NoData
    /\ is_active = TRUE
    /\ payment_users = Registry
    /\ ftp_files = [f \in Folders |-> FileNames]
    /\ calls = <<>>
    /\ last = NoRequest
    /\ inflight = NoHandlers
    /\ base = Row(NULL, NoData, TRUE)
    /\ probe = NoProbe
    /\ file_metadata_cache = NoCache
    /\ now = 0
    /\ messages = <<>>

\* One delivery handled from its first line to its return.
ReceiveWebhook ==
    \E payload \in Payloads : \E env \in WebhookEnvs :
      \E got \in {receive_webhook(payload, messages, CurrentRow, payment_users,
                                  ftp_files, env)} :
        /\ messages' = got.rows
        /\ conversation_state' = got.row.state
        /\ conversation_data' = got.row.data
        /\ is_active' = got.row.is_active
        /\ calls' = got.calls
        /\ last' = Request("webhook", payload, got.invoked, got.status, env.gw_reply,
                           BotRows(messages))
        /\ UNCHANGED <<payment_users, ftp_files, inflight, base, probe,
                       file_metadata_cache, now>>

\* An operator writes to the contact from the dashboard.
OperatorSend ==
    \E sent \in BOOLEAN :
      \E got \in {send_message(messages, <<"o", "k">>, now, sent)} :
        /\ messages' = got.rows
        /\ calls' = <<Call("send_whatsapp_message", "operator", sent)>>
        /\ last' = Request("send", <<>>, <<>>, IF got.ok THEN "ok" ELSE "error", sent,
                           BotRows(messages))
        /\ UNCHANGED <<conversation_state, conversation_data, is_active, payment_users,
                       ftp_files, inflight, base, probe, file_metadata_cache, now>>

NextWebhook == ReceiveWebhook \/ OperatorSend

SpecWebhook == InitWebhook /\ [][NextWebhook]_vars

\* --------------------------------------- one batch call and its worker threads

\* The endpoints that work their items in a ThreadPoolExecutor.
BatchOps == {"upload", "delete", "move"}

\* The second argument of min(len(...), cap) in each endpoint.
WorkerCap(op) ==
    CASE op = "upload" -> UPLOAD_MAX_WORKERS
      [] op = "delete" -> DELETE_MAX_WORKERS
      [] op = "move"   -> MOVE_MAX_WORKERS

MostItems(op) ==
    CASE op = "upload" -> MaxUploadBatch
      [] op = "delete" -> MaxDeleteBatch
      [] op = "move"   -> MaxMoveBatch

\* One item of the call: where its coroutine stands, the attempts it has
\* handed to the executor, and its result once it is final.
WorkItem(at, attempts, success) == [at |-> at, attempts |-> attempts, success |-> success]

\* The call at its first line: no item has started, the loop is at i = 0.
BatchRun(op, n) ==
    [fn |-> "batch", op |-> op, n |-> n, i |-> 0, phase |-> "gather", slept |-> 0,
     item |-> [k \in 1..n |-> WorkItem("idle", 0, FALSE)]]

InitWorkers ==
    /\ conversation_state = NULL
    /\ conversation_data = NoData
    /\ is_active = TRUE
    /\ payment_users = Registry
    /\ ftp_files = [f \in Folders |-> {}]
    /\ calls = <<>>
    /\ last = NoEvent
    /\ inflight = NoHandlers
    /\ base = Row(NULL, NoData, TRUE)
    /\ probe \in UNION {{BatchRun(op, n) : n \in 1..MostItems(op)} : op \in BatchOps}
    /\ file_metadata_cache = NoCache
    /\ now = 0
    /\ messages = <<>>

\* batch_size = max_workers
batch_size == max_workers(probe.n, WorkerCap(probe.op))

\* batch = items[i:i + batch_size], as positions counted from 1.
CurrentBatch == {k \in 1..probe.n : k > probe.i /\ k <= probe.i + batch_size}

\* The jobs a thread of the executor is running: each holds the session its
\* ftp_connection() made, connecting or connected.
RunningJobs == {k \in 1..probe.n : probe.item[k].at \in {"connecting", "open"}}

ItemBecomes(k, item) ==
    /\ probe' = [probe EXCEPT !.item[k] = item]
    /\ UNCHANGED <<conversation_state, conversation_data, is_active, payment_users,
                   ftp_files, calls, last, inflight, base,
                   file_metadata_cache, now, messages>>

\* What the coroutine does with the result of a job: success is final; a
\* failed first upload sleeps 500 ms and is handed to the executor once more;
\* any other failure is final.
AttemptResult(k, success) ==
    IF success THEN ItemBecomes(k, WorkItem("final", probe.item[k].attempts, TRUE))
    ELSE IF probe.op = "upload" /\ probe.item[k].attempts = 1
    THEN ItemBecomes(k, WorkItem("retry_sleep", 1, FALSE))
    ELSE ItemBecomes(k, WorkItem("final", probe.item[k].attempts, FALSE))

\* asyncio.gather starts the coroutine of an item of the batch: the item is
\* refused by its own checks (not a PDF, no cedula in the name, a malformed
\* id, the wrong folder), or its job is handed to the executor.
StartItem ==
    \E k \in CurrentBatch :
        /\ probe.phase = "gather"
        /\ probe.item[k].at = "idle"
        /\ \/ ItemBecomes(k, WorkItem("final", 0, FALSE))
           \/ ItemBecomes(k, WorkItem("submitted", 1, FALSE))

\* ThreadPoolExecutor(max_workers=max_workers): a job waits until fewer than
\* max_workers threads are busy; its thread then enters ftp_connection().
RunJob ==
    \E k \in 1..probe.n :
        /\ probe.item[k].at = "submitted"
        /\ Cardinality(RunningJobs) < batch_size
        /\ ItemBecomes(k, WorkItem("connecting", probe.item[k].attempts, FALSE))

\* ftp.connect and ftp.login: the session is open, or the connection fails,
\* ftp_connection() closes what it made and the job returns failure.
Connect ==
    \E k \in 1..probe.n :
        /\ probe.item[k].at = "connecting"
        /\ \/ ItemBecomes(k, WorkItem("open", probe.item[k].attempts, FALSE))
           \/ AttemptResult(k, FALSE)

\* The command inside the with block succeeds or fails; the block is left,
\* the session closed and the job returns.
Operate ==
    \E k \in 1..probe.n, success \in BOOLEAN :
        /\ probe.item[k].at = "open"
        /\ AttemptResult(k, success)

\* await asyncio.sleep(0.5) is over: the second upload is handed over.
Retry ==
    \E k \in 1..probe.n :
        /\ probe.item[k].at = "retry_sleep"
        /\ ItemBecomes(k, WorkItem("submitted", 2, FALSE))

\* Variant: the pause follows every batch.
PauseAfterEveryBatch(i, size, n) == TRUE

\* if i + batch_size < len(items): await asyncio.sleep(...)
PauseDue(i, size, n) == i + size < n

Looped(i, phase, slept) ==
    /\ probe' = [probe EXCEPT !.i = i, !.phase = phase, !.slept = slept]
    /\ UNCHANGED <<conversation_state, conversation_data, is_active, payment_users,
                   ftp_files, calls, last, inflight, base,
                   file_metadata_cache, now, messages>>

\* for i in range(0, len(items), batch_size): the next batch, or the end of
\* the loop.
NextTurn(slept) ==
    Looped(probe.i + batch_size,
           IF probe.i + batch_size < probe.n THEN "gather" ELSE "return",
           slept)

\* asyncio.gather has every result of the batch and the with block of the
\* executor is left: the call sleeps when a pause is due, else the loop
\* goes on.
EndBatch ==
    /\ probe.phase = "gather"
    /\ \A k \in CurrentBatch : probe.item[k].at = "final"
    /\ IF PauseDue(probe.i, batch_size, probe.n)
       THEN Looped(probe.i, "sleep", probe.slept + 1)
       ELSE NextTurn(probe.slept)

\* The pause between two batches is over.
WakeUp ==
    /\ probe.phase = "sleep"
    /\ NextTurn(probe.slept)

NextWorkers == StartItem \/ RunJob \/ Connect \/ Operate \/ Retry \/ EndBatch \/ WakeUp

SpecWorkers == InitWorkers /\ [][NextWorkers]_vars

\* ------------------------------------------- the session of one operation

\* The operations that enter ftp_connection().
SessionOps ==
    {"upload_file", "download_to_temp", "find_files_by_cedula", "rename_file",
     "move_file", "delete_file", "list_files_in_directory",
     "download_file_from_ftp", "_get_files_with_metadata"}

\* One call of an operation: whether the credentials are configured, where
\* the call stands, the socket of the FTP object it made ("none" before
\* connect, then "open", then "closed"), what made it leave the with block,
\* and how the call ended.
SessionCall(op, credentials) ==
    [fn |-> "session", op |-> op, credentials |-> credentials, at |-> "called",
     sock |-> "none", cause |-> "none", exit |-> "none"]

InitSession ==
    /\ conversation_state = NULL
    /\ conversation_data = NoData
    /\ is_active = TRUE
    /\ payment_users = Registry
    /\ ftp_files = [f \in Folders |-> {}]
    /\ calls = <<>>
    /\ last = NoEvent
    /\ inflight = NoHandlers
    /\ base = Row(NULL, NoData, TRUE)
    /\ probe \in {SessionCall(op, credentials) : op \in SessionOps, credentials \in BOOLEAN}
    /\ file_metadata_cache = NoCache
    /\ now = 0
    /\ messages = <<>>

\* The handlers around the with block: find_files_by_cedula raises
\* ConnectionError; the other operations return None, False or [].
Ending(op, cause) ==
    IF cause \in {"none", "early_return"} THEN "returned"
    ELSE IF op = "find_files_by_cedula" THEN "raised"
    ELSE "returned_failure"

SessionStep(at, sock, cause) ==
    /\ probe' = [probe EXCEPT !.at = at, !.sock = sock, !.cause = cause,
                              !.exit = IF at = "finished" THEN Ending(probe.op, cause)
                                       ELSE "none"]
    /\ UNCHANGED <<conversation_state, conversation_data, is_active, payment_users,
                   ftp_files, calls, last, inflight, base,
                   file_metadata_cache, now, messages>>

\* if not _validate_ftp_credentials(): raise ConnectionError, before any FTP
\* object is made; else ftp = FTP(timeout=30), which connects to nothing.
EnterConnection ==
    /\ probe.at = "called"
    /\ IF probe.credentials
       THEN SessionStep("created", "none", "none")
       ELSE SessionStep("finished", "none", "credentials")

\* ftp.connect(FTP_HOST, 21): the socket is open, or OSError is raised and
\* the finally clause is entered with no socket.
FtpConnect ==
    /\ probe.at = "created"
    /\ \/ SessionStep("connected", "open", "none")
       \/ SessionStep("exiting", "none", "connect")

\* ftp.login(FTP_USER, FTP_PASSWORD): the with block is entered, or the
\* server refuses and the finally clause is entered with the socket open.
FtpLogin ==
    /\ probe.at = "connected"
    /\ \/ SessionStep("yielded", probe.sock, "none")
       \/ SessionStep("exiting", probe.sock, "login")

\* The with block: it runs to its end, returns from inside, or a command
\* raises; each way the generator goes on to its finally clause.
WithBlock ==
    /\ probe.at = "yielded"
    /\ \E cause \in {"none", "early_return", "command"} :
          SessionStep("exiting", probe.sock, cause)

\* Variant: close() leaves the socket as it is.
close_nothing(sock) == sock

\* ftp.close(): the socket, when there is one, is closed.
close(sock) == IF sock = "open" THEN "closed" ELSE sock

\* ftp.quit(): QUIT is sent and the socket closed; without a socket, or when
\* the server does not answer, it raises and leaves the socket as it is.
FtpQuit ==
    /\ probe.at = "exiting"
    /\ \/ /\ probe.sock = "open"
          /\ SessionStep("finished", close(probe.sock), probe.cause)
       \/ SessionStep("quit_raised", probe.sock, probe.cause)

\* except Exception: try: ftp.close()
FtpClose ==
    /\ probe.at = "quit_raised"
    /\ SessionStep("finished", close(probe.sock), probe.cause)

NextSession == EnterConnection \/ FtpConnect \/ FtpLogin \/ WithBlock \/ FtpQuit \/ FtpClose

SpecSession == InitSession /\ [][NextSession]_vars

\* ------------------------------------------------ the order of a search

\* The files of the folder that is searched: three that carry the cedula
\* "12", one of them with an upper-case extension, and one that does not.
OrderNames ==
    { <<"1", "2", ".", "p", "d", "f">>,
      <<"0", "1", "2", ".", "p", "d", "f">>,
      <<"1", "2", "_", "2", ".", "P", "D", "F">>,
      <<"3", "4", ".", "p", "d", "f">> }

\* The orders in which a server may list the files of S.
Orders(S) ==
    {s \in [1..Cardinality(S) -> S] : \A i, j \in 1..Cardinality(S) : s[i] = s[j] => i = j}

\* One call of find_files_by_cedula on "recientes": the lines of a LIST of the
\* folder in the server's order, the snapshot of a valid cache entry (an
\* earlier LIST) when there is one, and what the call gave back.
SearchCall(with_metadata, cedula, outcome, listing, cached, snapshot) ==
    [fn |-> "find_files_by_cedula", done |-> FALSE, with_metadata |-> with_metadata,
     cedula |-> cedula, outcome |-> outcome, listing |-> listing, cached |-> cached,
     snapshot |-> snapshot, raised |-> FALSE, result |-> <<>>]

SearchCalls ==
    UNION {UNION {
        {SearchCall(m, c, o, listing, FALSE, <<>>) :
            m \in BOOLEAN, c \in {<<"1", "2">>, <<"3", "4">>}, o \in FtpOutcomes}
        \cup
        {SearchCall(TRUE, c, o, listing, TRUE, snapshot) :
            c \in {<<"1", "2">>, <<"3", "4">>}, o \in FtpOutcomes,
            snapshot \in Orders(S)}
      : listing \in Orders(S)} : S \in SUBSET OrderNames}

InitOrder ==
    /\ conversation_state = NULL
    /\ conversation_data = NoData
    /\ is_active = TRUE
    /\ payment_users = Registry
    /\ probe \in SearchCalls
    /\ ftp_files = [f \in Folders |-> IF f = "recientes" THEN Range(probe.listing) ELSE {}]
    /\ calls = <<>>
    /\ last = NoEvent
    /\ inflight = NoHandlers
    /\ base = Row(NULL, NoData, TRUE)
    /\ file_metadata_cache =
          IF probe.cached
          THEN [NoCache EXCEPT !["recientes"] = Entry(Range(probe.snapshot), 0)]
          ELSE NoCache
    /\ now = 0
    /\ messages = <<>>

\* _get_files_with_metadata(subdir) as a list: the snapshot of a valid entry,
\* else the PDF lines of the LIST in the order the server sent them, else []
\* when the session fails.
files_with_metadata(cached, snapshot, listing, reachable) ==
    IF cached THEN snapshot
    ELSE IF reachable THEN SelectSeq(listing, LAMBDA f : EndsWith(Lower(f), PDF))
    ELSE <<>>

\* find_files_by_cedula(remote_subdir, cedula, with_metadata=True): the
\* entries whose filename contains the cedula, in the order of the list.
matching_files(listed, cedula) == SelectSeq(listed, LAMBDA f : Contains(f, cedula))

SearchReturns(raised, result, cache) ==
    /\ probe' = [probe EXCEPT !.done = TRUE, !.raised = raised, !.result = result]
    /\ file_metadata_cache' = cache
    /\ UNCHANGED <<conversation_state, conversation_data, is_active, payment_users,
                   ftp_files, calls, last, inflight, base, now, messages>>

\* find_files_by_cedula(folder, cedula), as the dialogue calls it.
FindNames ==
    /\ probe.fn = "find_files_by_cedula" /\ ~probe.done /\ ~probe.with_metadata
    /\ \E found \in {find_files_by_cedula(ftp_files, "recientes", probe.cedula,
                                          probe.outcome)} :
          SearchReturns(found.raised, found.result, file_metadata_cache)

\* find_files_by_cedula(folder, cedula, with_metadata=True); a fresh LIST is
\* stored in the cache.
FindWithMetadata ==
    /\ probe.fn = "find_files_by_cedula" /\ ~probe.done /\ probe.with_metadata
    /\ \E listed \in {files_with_metadata(probe.cached, probe.snapshot, probe.listing,
                                           probe.outcome # "unreachable")} :
          SearchReturns(FALSE, matching_files(listed, probe.cedula),
                        IF ~probe.cached /\ probe.outcome # "unreachable"
                        THEN [file_metadata_cache EXCEPT
                                !["recientes"] = Entry(Range(listed), now)]
                        ELSE file_metadata_cache)

NextOrder == FindNames \/ FindWithMetadata

SpecOrder == InitOrder /\ [][NextOrder]_vars

\* ------------------------------------------- the temporary file of a choice

\* The temporary file tempfile.mkstemp makes for a download.
TempPath == "temp_path"

\* One choice of a folder in waiting_receipt_selection, for the cedula "12":
\* the message, what the search of the folder meets, where the handler
\* stands, the temporary files that exist, whether one was made, and the
\* result of send_selected_receipt once the handler is through.
ChoiceCall(message, outcome) ==
    [fn |-> "send_selected_receipt", message |-> message, outcome |-> outcome,
     at |-> "called", file_name |-> <<>>, temp |-> {}, made |-> FALSE,
     success |-> FALSE, ok |-> FALSE]

InitTemp ==
    /\ conversation_state = "waiting_receipt_selection"
    /\ conversation_data = [null |-> FALSE, cedula |-> <<"1", "2">>, receipts_found |-> TRUE]
    /\ is_active = TRUE
    /\ payment_users = Registry
    /\ ftp_files \in Stores
    /\ calls = <<>>
    /\ last = NoEvent
    /\ inflight = NoHandlers
    /\ base = Row(NULL, NoData, TRUE)
    /\ probe \in {ChoiceCall(m, o) : m \in {<<"1">>, <<"2">>}, o \in FtpOutcomes}
    /\ file_metadata_cache = NoCache
    /\ now = 0
    /\ messages = <<>>

TempStep(at, file_name, temp, made, success, ok) ==
    /\ probe' = [probe EXCEPT !.at = at, !.file_name = file_name, !.temp = temp,
                              !.made = made, !.success = success, !.ok = ok]
    /\ UNCHANGED <<conversation_state, conversation_data, is_active, payment_users,
                   ftp_files, calls, last, inflight, base,
                   file_metadata_cache, now, messages>>

\* The handler is through: the conversation is reset whatever the result.
TempReturn(temp, made, ok) ==
    /\ probe' = [probe EXCEPT !.at = "returned", !.temp = temp, !.made = made, !.ok = ok]
    /\ conversation_state' = NULL
    /\ conversation_data' = NoData
    /\ UNCHANGED <<is_active, payment_users, ftp_files, calls, last, inflight, base,
                   file_metadata_cache, now, messages>>

\* Variant: os.remove leaves the file where it is.
remove_nothing(temp, path) == temp

\* if os.path.exists(temp_path): os.remove(temp_path)
remove_temp(temp, path) == temp \ {path}

\* get_receipts_by_folder for the chosen folder: the first match goes on to
\* send_selected_receipt; no match ends the handler.
PickReceipt ==
    /\ probe.fn = "send_selected_receipt" /\ probe.at = "called"
    /\ \E found \in {get_receipts_by_folder(
                        ftp_files, conversation_data.cedula,
                        IF probe.message = <<"2">> THEN "recientes" ELSE "anteriores",
                        Env(TRUE, TRUE, TRUE, TRUE, TRUE,
                            [f \in Folders |-> probe.outcome]))} :
          IF found.ok
          THEN TempStep("download", found.receipts[1].file_name, probe.temp, FALSE,
                        FALSE, FALSE)
          ELSE TempReturn(probe.temp, FALSE, FALSE)

\* download_to_temp(file_path) up to mkstemp: the session fails and None is
\* returned with no file made, or the temporary file is made.
OpenDownload ==
    /\ probe.fn = "send_selected_receipt" /\ probe.at = "download"
    /\ \/ TempReturn(probe.temp, FALSE, FALSE)
       \/ TempStep("retr", probe.file_name, probe.temp \cup {TempPath}, TRUE, FALSE, FALSE)

\* ftp.retrbinary writes the file and its path is returned, or it raises.
Retrieve ==
    /\ probe.fn = "send_selected_receipt" /\ probe.at = "retr"
    /\ \/ TempStep("send", probe.file_name, probe.temp, probe.made, FALSE, FALSE)
       \/ TempStep("cleanup", probe.file_name, probe.temp, probe.made, FALSE, FALSE)

\* except Exception of download_to_temp: the file is removed, None returned.
CleanUp ==
    /\ probe.fn = "send_selected_receipt" /\ probe.at = "cleanup"
    /\ TempReturn(remove_temp(probe.temp, TempPath), probe.made, FALSE)

\* send_whatsapp_document(to, temp_path, file_name): True, False, or an
\* exception on its way to the outer handler; the finally clause is next.
SendDocument ==
    /\ probe.fn = "send_selected_receipt" /\ probe.at = "send"
    /\ \E success \in BOOLEAN :
          TempStep("finally", probe.file_name, probe.temp, probe.made, success, FALSE)

\* finally: os.remove(temp_path); then the result of the send is returned.
RemoveAfterSend ==
    /\ probe.fn = "send_selected_receipt" /\ probe.at = "finally"
    /\ TempReturn(remove_temp(probe.temp, TempPath), probe.made, probe.success)

NextTemp ==
    PickReceipt \/ OpenDownload \/ Retrieve \/ CleanUp \/ SendDocument \/ RemoveAfterSend

SpecTemp == InitTemp /\ [][NextTemp]_vars

\* ------------------------------------------- a stored context in error

\* conversation_data without a cedula: None, and "{}".
DataWithoutCedula == {NoData, [null |-> FALSE, cedula |-> <<>>, receipts_found |-> FALSE]}

\* The row of a contact in waiting_date whose stored data is in error, the
\* case the waiting_date branch provides for with "if not cedula"; the
\* dialogue goes on from there.
InitStored ==
    /\ conversation_state = "waiting_date"
    /\ conversation_data \in DataWithoutCedula
    /\ is_active = TRUE
    /\ payment_users = Registry
    /\ ftp_files \in Stores
    /\ calls = <<>>
    /\ last = NoEvent
    /\ inflight = NoHandlers
    /\ base = Row(NULL, NoData, TRUE)
    /\ probe = NoProbe
    /\ file_metadata_cache = NoCache
    /\ now = 0
    /\ messages = <<>>

SpecStored == InitStored /\ [][Next]_vars

\* ------------------------------------------------ the name of an uploaded file

\* Names whose text without the extensions holds an extension again.
NestedExtensionNames ==
    { run \o <<".", "p">> \o PDF \o <<"d", "f">> \o rest \o PDF :
        run \in {NumText(999999), NumText(1234567)}, rest \in {NumText(78), NumText(7)} }

\* The names of the files put to the upload.
RenamedNames == {r.filename : r \in FileNameInputs} \cup NestedExtensionNames

InitRename ==
    /\ conversation_state = NULL
    /\ conversation_data = NoData
    /\ is_active = TRUE
    /\ payment_users = Registry
    /\ ftp_files = [f \in Folders |-> {}]
    /\ calls = <<>>
    /\ last = NoEvent
    /\ inflight = NoHandlers
    /\ base = Row(NULL, NoData, TRUE)
    /\ probe \in {[fn |-> "pending", filename |-> f] : f \in RenamedNames}
    /\ file_metadata_cache = NoCache
    /\ now \in {0, MaxMinutes}
    /\ messages = <<>>

\* upload_multiple_receipts(files, folder) with one file in the request.
UploadOne ==
    /\ probe.fn = "pending"
    /\ \E first \in BOOLEAN : \E second \in BOOLEAN :
         \E done \in {upload_multiple_receipts(ftp_files, file_metadata_cache, "recientes",
                          <<UploadItem(probe.filename, TRUE, first, second)>>, now)} :
           /\ ftp_files' = done.files
           /\ file_metadata_cache' = done.cache
           /\ calls' = done.calls
           /\ probe' = [fn |-> "uploaded", filename |-> probe.filename,
                        response |-> done.response]
    /\ UNCHANGED <<conversation_state, conversation_data, is_active, payment_users,
                   last, inflight, base, now, messages>>

\* list_receipts' loop over the folder "recientes": the name and the cedula
\* of every file the listing gives.
ListReceipts ==
    /\ probe.fn = "uploaded"
    /\ \E reachable \in BOOLEAN :
         \E got \in {list_files_with_metadata(file_metadata_cache, ftp_files, "recientes",
                                              now, reachable)} :
           /\ file_metadata_cache' = got.cache
           /\ calls' = got.calls
           /\ probe' = [fn |-> "listed", filename |-> probe.filename,
                        response |-> probe.response,
                        receipts |-> {[nombre |-> archivo,
                                       cedula |-> extract_cedula_from_filename(archivo)] :
                                        archivo \in got.files}]
    /\ UNCHANGED <<conversation_state, conversation_data, is_active, payment_users,
                   ftp_files, last, inflight, base, now, messages>>

NextRename == UploadOne \/ ListReceipts

SpecRename == InitRename /\ [][NextRename]_vars

\* ------------------------------------ a cached listing beside a batch of uploads

\* Most items of the upload followed beside a listing: fewer than
\* UPLOAD_MAX_WORKERS, so that they are one batch whose jobs run together.
MaxListedItems == 2

ListedRequests == UNION {[1..n -> UploadItems] : n \in 1..MaxListedItems}

\* The names in the folder before the upload.
ListedStores == { {}, {<<"3", "4", ".", "p", "d", "f">>} }

\* list_receipts' call for one folder and upload_multiple_receipts' request,
\* each with the point it has reached.  The listing is "idle", "listing"
\* after a cache check found no valid entry, "installing" after the remote
\* LIST, "done" after its return; snapshot is what its LIST read, result
\* what it returned, fresh whether the result came from a LIST.  The upload
\* is "idle", "running" while its jobs are with the workers, "returned";
\* pending are the jobs not yet run, results the dictionaries so far.
ListAndUpload(listing, snapshot, result, fresh, upload, items, pending, results) ==
    [fn |-> "list_and_upload", listing |-> listing, snapshot |-> snapshot,
     result |-> result, fresh |-> fresh, upload |-> upload, items |-> items,
     pending |-> pending, results |-> results]

InitListed ==
    /\ conversation_state = NULL
    /\ conversation_data = NoData
    /\ is_active = TRUE
    /\ payment_users = Registry
    /\ ftp_files \in {[f \in Folders |-> IF f = "recientes" THEN s ELSE {}] :
                        s \in ListedStores}
    /\ calls = <<>>
    /\ last = NoEvent
    /\ inflight = NoHandlers
    /\ base = Row(NULL, NoData, TRUE)
    /\ probe \in {ListAndUpload("idle", {}, {}, FALSE, "idle", items, {}, <<>>) :
                    items \in ListedRequests}
    /\ file_metadata_cache \in
           {NoCache, [NoCache EXCEPT !["recientes"] = Entry(ftp_files["recientes"], 0)]}
    /\ now = 0
    /\ messages = <<>>

\* Variant: the listing runs in a thread of its own, and the handlers go on
\* while it runs.
LoopAlwaysFree(listing) == TRUE

\* list_receipts is a coroutine without an await: from its cache check to
\* its return it keeps the event loop, and no other handler goes on.
LoopFree(listing) == listing \in {"idle", "done"}

\* _get_files_with_metadata, the check under _cache_lock: a valid entry is
\* returned; otherwise the call goes on to the remote store.
ListCheck ==
    /\ probe.listing \in {"idle", "done"}
    /\ probe' = IF CacheValid(file_metadata_cache["recientes"], now)
                THEN [probe EXCEPT !.listing = "done", !.fresh = FALSE,
                                   !.result = file_metadata_cache["recientes"].files]
                ELSE [probe EXCEPT !.listing = "listing"]
    /\ calls' = <<>>
    /\ UNCHANGED <<conversation_state, conversation_data, is_active, payment_users,
                   ftp_files, last, inflight, base, file_metadata_cache, now, messages>>

\* _get_files_with_metadata, the LIST outside the lock: the names the folder
\* holds now; a failure returns the empty list.
ListRemote ==
    /\ probe.listing = "listing"
    /\ \E reachable \in BOOLEAN :
         /\ probe' = IF reachable
                     THEN [probe EXCEPT !.listing = "installing",
                                        !.snapshot = MetadataListing(ftp_files, "recientes")]
                     ELSE [probe EXCEPT !.listing = "done", !.fresh = TRUE, !.result = {}]
         /\ calls' = <<Call("LIST", "recientes", reachable)>>
    /\ UNCHANGED <<conversation_state, conversation_data, is_active, payment_users,
                   ftp_files, last, inflight, base, file_metadata_cache, now, messages>>

\* _get_files_with_metadata, the store under _cache_lock and the return.
ListInstall ==
    /\ probe.listing = "installing"
    /\ file_metadata_cache' =
           [file_metadata_cache EXCEPT !["recientes"] = Entry(probe.snapshot, now)]
    /\ probe' = [probe EXCEPT !.listing = "done", !.fresh = TRUE,
                              !.result = probe.snapshot]
    /\ calls' = <<>>
    /\ UNCHANGED <<conversation_state, conversation_data, is_active, payment_users,
                   ftp_files, last, inflight, base, now, messages>>

\* upload_multiple_receipts up to its await: the jobs of the batch are
\* handed to the workers.
UploadStart ==
    /\ probe.upload = "idle"
    /\ LoopFree(probe.listing)
    /\ probe' = [probe EXCEPT !.upload = "running",
                              !.pending = DOMAIN probe.items]
    /\ calls' = <<>>
    /\ UNCHANGED <<conversation_state, conversation_data, is_active, payment_users,
                   ftp_files, last, inflight, base, file_metadata_cache, now, messages>>

\* One job of the batch in its worker thread; results are kept in the
\* order the jobs end.
UploadJob ==
    /\ probe.upload = "running"
    /\ \E i \in probe.pending :
         \E done \in {process_single_file(ftp_files, "recientes", probe.items[i], now)} :
           /\ ftp_files' = done.files
           /\ calls' = done.calls
           /\ probe' = [probe EXCEPT !.pending = @ \ {i},
                                     !.results = @ \o done.results]
    /\ UNCHANGED <<conversation_state, conversation_data, is_active, payment_users,
                   last, inflight, base, file_metadata_cache, now, messages>>

\* upload_multiple_receipts after asyncio.gather: the results are separated
\* and, with an uploaded file among them, the folder's entry is cleared.
UploadReturn ==
    /\ probe.upload = "running"
    /\ probe.pending = {}
    /\ LoopFree(probe.listing)
    /\ file_metadata_cache' =
           UploadPurge(file_metadata_cache, "recientes",
                       UploadResponse(probe.results).succeeded)
    /\ probe' = [probe EXCEPT !.upload = "returned"]
    /\ calls' = <<>>
    /\ UNCHANGED <<conversation_state, conversation_data, is_active, payment_users,
                   ftp_files, last, inflight, base, now, messages>>

NextListed ==
    \/ ListCheck
    \/ ListRemote
    \/ ListInstall
    \/ UploadStart
    \/ UploadJob
    \/ UploadReturn

SpecListed == InitListed /\ [][NextListed]_vars

\* ------------------------------------------------- the owner of a sent receipt

\* Two registered contacts; the identifier of the first is the beginning of
\* the identifier of the second.
OwnerRegistry ==
    { PaymentUser(NumText(1234567), DateTime(2000, 3, 1), TRUE),
      PaymentUser(NumText(12345678), DateTime(2002, 2, 2), TRUE) }

\* A receipt of each of them.
OwnerFileNames == { NumText(1234567) \o PDF, NumText(12345678) \o PDF }

OwnerStores == [Folders -> SUBSET OwnerFileNames]

\* What the contact writes: the menu's and the buttons' options, the two
\* identifiers, their dates of issue and a cancel keyword.
OwnerMessages ==
    { <<"1">>, <<"2">>, NumText(1234567), NumText(12345678),
      <<"1", "/", "3", "/", "2", "0", "0", "0">>,
      <<"2", "/", "2", "/", "2", "0", "0", "2">>,
      <<"m", "e", "n", "u">> }

\* The history of the conversation: validated is the identifier that passed
\* validate_user_data since the contact last left the menu (<<>> for none),
\* was is its value before the last event.
Identity(validated, was) == [fn |-> "identity", validated |-> validated, was |-> was]

\* The identifier a handled event validated, <<>> when it validated none.
ValidatedBy(log) ==
    IF \E i \in 1..Len(log) : log[i].op = "validate_user_data" /\ log[i].ok
    THEN log[CHOOSE i \in 1..Len(log) : log[i].op = "validate_user_data" /\ log[i].ok].arg
    ELSE <<>>

InitOwner ==
    /\ conversation_state = NULL
    /\ conversation_data = NoData
    /\ is_active = TRUE
    /\ payment_users = OwnerRegistry
    /\ ftp_files \in OwnerStores
    /\ calls = <<>>
    /\ last = NoEvent
    /\ inflight = NoHandlers
    /\ base = Row(NULL, NoData, TRUE)
    /\ probe = Identity(<<>>, <<>>)
    /\ file_metadata_cache = NoCache
    /\ now = 0
    /\ messages = <<>>

\* One inbound event handled from start to end, with the history kept
\* beside it.
ReceiveFromOwner ==
    \E raw \in OwnerMessages : \E env \in Envs(conversation_state, Strip(Lower(raw))) :
      \E out \in {process_message(raw, CurrentRow, payment_users, ftp_files, env)} :
      \E ok \in {process_message(raw, CurrentRow, payment_users, ftp_files, GatewayOk(env))} :
        /\ conversation_state' = out.row.state
        /\ conversation_data' = out.row.data
        /\ is_active' = out.row.is_active
        /\ calls' = out.calls
        /\ last' = [seen |-> TRUE, message |-> raw, row |-> CurrentRow, ideal |-> ok.row]
        /\ probe' = Identity(IF out.row.state = NULL THEN <<>>
                             ELSE IF ValidatedBy(out.calls) # <<>>
                             THEN ValidatedBy(out.calls)
                             ELSE probe.validated,
                             probe.validated)
        /\ UNCHANGED <<payment_users, ftp_files, inflight, base,
                       file_metadata_cache, now, messages>>

NextOwner == ReceiveFromOwner

SpecOwner == InitOwner /\ [][NextOwner]_vars

\* ------------------------------------------------- properties of the dialogue

\* The text of the last handled event, as the handler compares it.
LastText == Strip(Lower(last.message))

Idle == conversation_state = NULL /\ conversation_data = NoData

\* The last call of the event is the reply, with this text.
Replied(text) ==
    /\ Len(calls) > 0
    /\ calls[Len(calls)].op = "send_whatsapp_message"
    /\ calls[Len(calls)].arg = text

Did(op, ok) == \E i \in 1..Len(calls) : calls[i].op = op /\ calls[i].ok = ok

Searched(folder, cedula) ==
    \E i \in 1..Len(calls) :
        calls[i].op = "find_files_by_cedula" /\ calls[i].arg = <<folder, cedula>>

\* What the search of a folder had to offer: the folder's PDF files whose
\* name contains the id, nothing when the store did not answer.
BucketMatches(folder, cedula) ==
    IF \E i \in 1..Len(calls) : /\ calls[i].op = "find_files_by_cedula"
                                /\ calls[i].arg[1] = folder
                                /\ calls[i].ok
    THEN {f \in ftp_files[folder] : Contains(f, cedula) /\ EndsWith(Lower(f), PDF)}
    ELSE {}

\* C1: in every non-idle state a message that is, as a whole and without
\* regard to case, a cancel keyword leaves the contact Idle with no data and
\* is answered with the main menu, and nothing is validated or looked up
\* before: the reply is the only call of the event.
CancelReturnsToIdle ==
    (last.seen /\ last.row.state # NULL /\ LastText \in cancel_keywords)
      => /\ Idle
         /\ Len(calls) = 1
         /\ Replied("WELCOME_MESSAGE")

CancelledWhileChoosing ==
    /\ last.seen
    /\ last.row.state = "waiting_receipt_selection"
    /\ last.message = <<" ", "M", "E", "N", "U">>
    /\ Idle

\* C2: whenever the stored conversation_state is null, the stored
\* conversation_data is null too.
IdleHasNoData == conversation_state = NULL => conversation_data = NoData

ReturnedToIdleWithStoredId ==
    /\ last.seen
    /\ ~last.row.data.null
    /\ Len(last.row.data.cedula) > 0
    /\ Idle

\* The last event was a date, in waiting_date, that passed validate_user_data
\* with the stored id.
PassedIdentity ==
    /\ last.seen
    /\ last.row.state = "waiting_date"
    /\ Did("validate_user_data", TRUE)

\* C3: in waiting_date, when the stored id and the date pass the identity
\* validation, both folders are searched for the stored id; if neither has
\* a match the contact ends Idle with no data and a not-found reply; if at
\* least one has, the two buttons are sent and the contact waits for the
\* choice with the id still stored.
IdentityPassedSearchesBothFolders ==
    PassedIdentity =>
        LET id == last.row.data.cedula
        IN  /\ Searched("recientes", id)
            /\ Searched("anteriores", id)
            /\ (\A f \in Folders : BucketMatches(f, id) = {})
                 => /\ Idle
                    /\ Replied("receipts_not_found")
            /\ (\E f \in Folders : BucketMatches(f, id) # {})
                 => /\ \E ok \in BOOLEAN : Did("send_whatsapp_interactive_buttons", ok)
                    /\ conversation_state = "waiting_receipt_selection"
                    /\ ~conversation_data.null
                    /\ conversation_data.cedula = id

OnlyOlderFolderMatched ==
    /\ PassedIdentity
    /\ BucketMatches("recientes", last.row.data.cedula) = {}
    /\ BucketMatches("anteriores", last.row.data.cedula) # {}
    /\ conversation_state = "waiting_receipt_selection"

\* The last event was a choice of folder, in waiting_receipt_selection.
FolderChoice ==
    /\ last.seen
    /\ last.row.state = "waiting_receipt_selection"
    /\ LastText \in {<<"1">>, <<"2">>}

\* C4: in waiting_receipt_selection a choice of "1" or "2" ends the
\* conversation whatever happens to the receipt: the folder is empty, the
\* download fails, the send of the document fails or the document is
\* delivered; the contact is Idle with no data afterwards.
FolderChoiceEndsConversation == FolderChoice => Idle

ChoiceWithFailedDownload ==
    /\ FolderChoice
    /\ Did("download_to_temp", FALSE)
    /\ Idle

\* The folder a choice stands for.
ChosenFolder ==
    CASE LastText = <<"1">> -> "anteriores"
      [] LastText = <<"2">> -> "recientes"

\* The calls of the event that reach the remote store or carry a file.
StoreCalls ==
    SelectSeq(calls, LAMBDA c : c.op \in {"find_files_by_cedula", "download_to_temp",
                                          "send_whatsapp_document"})

\* C5: on a choice of folder exactly one search is made, in the chosen folder
\* ("1" = anteriores, "2" = recientes); no call of the event touches the
\* other folder, and the document sent is the first match of the chosen
\* folder, in the order of the names.
ChoiceIsScopedToChosenFolder ==
    FolderChoice =>
        /\ Len(SelectSeq(calls, LAMBDA c : c.op = "find_files_by_cedula")) = 1
        /\ \A i \in 1..Len(StoreCalls) : StoreCalls[i].arg[1] = ChosenFolder
        /\ \A i \in 1..Len(StoreCalls) :
             StoreCalls[i].op = "send_whatsapp_document" =>
                LET matches == BucketMatches(ChosenFolder, last.row.data.cedula)
                    sent    == StoreCalls[i].arg[2]
                IN  /\ sent \in matches
                    /\ \A g \in matches : g = sent \/ StrLess(sent, g)

OlderFolderChosenAmongMatches ==
    /\ FolderChoice
    /\ LastText = <<"1">>
    /\ Did("send_whatsapp_document", TRUE)
    /\ Cardinality(BucketMatches("anteriores", last.row.data.cedula)) = 2
    /\ \E f \in ftp_files["recientes"] : Contains(f, last.row.data.cedula)

\* C6: the stored conversation_state and conversation_data after an event
\* are what they would be had every send to the gateway (text, buttons,
\* document) succeeded.
GatewayFailureKeepsTransition ==
    last.seen => /\ conversation_state = last.ideal.state
                 /\ conversation_data = last.ideal.data

ButtonsFailedAndStateAdvanced ==
    /\ last.seen
    /\ Did("send_whatsapp_interactive_buttons", FALSE)
    /\ conversation_state = "waiting_receipt_selection"

\* C8: at Idle, a message the menu resolves to the receipt option moves the
\* contact to waiting_cedula with no data and is answered with the prompt
\* for the id.
ReceiptOptionStartsDialogue ==
    (last.seen /\ last.row.state = NULL /\ chosen_option(LastText) = "2")
      => /\ conversation_state = "waiting_cedula"
         /\ conversation_data = NoData
         /\ Len(calls) = 1
         /\ Replied("RECEIPT_INIT_MESSAGE")

ReceiptOptionByKeyword ==
    /\ last.seen
    /\ last.row.state = NULL
    /\ last.message = <<"p", "a", "g", "o">>
    /\ conversation_state = "waiting_cedula"

\* ------------------------------------------------ properties of the validators

Distance(a, b) == IF a >= b THEN a - b ELSE b - a

OneDay == TicksPerDay

\* The active user of the table with the probed id, if any.
ActiveMatches == {u \in payment_users : u.cedula = probe.cedula /\ u.is_active}

\* C9: validate_user_data succeeds iff the table has an active user with the
\* id whose stored date is at most one day away from the supplied one; the
\* stored date itself and the stored date plus or minus one day succeed, plus
\* or minus two days fail, and so does the id of no user or of an inactive one.
IdentityAcceptedIffWithinOneDay ==
    probe.fn = "validate_user_data" =>
        /\ probe.ok <=> \E u \in ActiveMatches :
                            Distance(u.expedition_date, probe.expedition_date) <= OneDay
        /\ \A u \in ActiveMatches :
             /\ probe.expedition_date \in {u.expedition_date,
                                           u.expedition_date + OneDay,
                                           u.expedition_date - OneDay} => probe.ok
             /\ probe.expedition_date \in {u.expedition_date + 2 * OneDay,
                                           u.expedition_date - 2 * OneDay} => ~probe.ok
        /\ ActiveMatches = {} => ~probe.ok

AcceptedOneDayLater ==
    /\ probe.fn = "validate_user_data"
    /\ probe.ok
    /\ \E u \in ActiveMatches :
          /\ u.expedition_date % TicksPerDay # 0
          /\ probe.expedition_date = u.expedition_date + OneDay

GregorianLeap(year) == (year % 4 = 0 /\ year % 100 # 0) \/ year % 400 = 0

DaysIn(month, year) ==
    IF month = 2 THEN (IF GregorianLeap(year) THEN 29 ELSE 28)
    ELSE IF month \in {4, 6, 9, 11} THEN 30
    ELSE 31

\* C10: validate_date_format accepts the text of a day, a month and a year
\* iff the year is in 1900..current year, the month in 1..12 and the day in
\* 1..the days of that month, February having 29 days in the years divisible
\* by 4 and not by 100, or divisible by 400; 30/02/2001 and 29/02/1900 are
\* rejected and 29/02/2000 is accepted.
DateAcceptedIffValid ==
    (probe.fn = "validate_date_format" /\ probe.typed) =>
        /\ probe.ok <=> /\ probe.year \in 1900..CurrentYear
                        /\ probe.month \in 1..12
                        /\ probe.day \in 1..DaysIn(probe.month, probe.year)
        /\ <<probe.day, probe.month, probe.year>> \in {<<30, 2, 2001>>, <<29, 2, 1900>>}
             => ~probe.ok
        /\ <<probe.day, probe.month, probe.year>> = <<29, 2, 2000>> => probe.ok

CenturyLeapDayRejected ==
    /\ probe.fn = "validate_date_format"
    /\ probe.text = <<"2", "9", "/", "0", "2", "/", "1", "9", "0", "0">>
    /\ ~probe.ok

\* ------------------------------------------- properties of the two deliveries

\* The rows that handling first's message and then second's, each from start
\* to end, can leave from the row both deliveries found.
SerialRows(first, second) ==
    UNION { { process_message(inflight[second].message, after, payment_users,
                              ftp_files, e2).row : e2 \in RaceEnvs } :
            after \in { process_message(inflight[first].message, base, payment_users,
                                        ftp_files, e1).row : e1 \in RaceEnvs } }

\* C7: when two deliveries of one phone number have both been handled, the
\* stored conversation_state and conversation_data are those of handling the
\* two one after the other, in one of the two orders.
HandlersAreSerialized ==
    (\A h \in Handlers : inflight[h].phase = "done")
      => \E r \in SerialRows("A", "B") \cup SerialRows("B", "A") :
            /\ conversation_state = r.state
            /\ conversation_data = r.data

\* ------------------------------------------------ properties of the extractor

\* A run that reads as a date of the calendar, YYYYMMDD with the year in
\* 1900..2100.
CalendarDate(run) ==
    /\ Len(run) = 8
    /\ LET year  == ToInt(SubSeq(run, 1, 4))
           month == ToInt(SubSeq(run, 5, 6))
           day   == ToInt(SubSeq(run, 7, 8))
       IN  /\ year \in 1900..2100
           /\ month \in 1..12
           /\ day \in 1..DaysIn(month, year)

\* A run that reads as a time of day, HHMMSS.
ClockTime(run) ==
    /\ Len(run) = 6
    /\ ToInt(SubSeq(run, 1, 2)) \in 0..23
    /\ ToInt(SubSeq(run, 3, 4)) \in 0..59
    /\ ToInt(SubSeq(run, 5, 6)) \in 0..59

\* C11: when the name of a file holds a digit run of 8 to 12 digits that is
\* neither a date (YYYYMMDD, year 1900..2100, day valid for the month) nor a
\* time (HHMMSS), the extractor returns neither a date nor a time.
ExtractorNeverReturnsDateOrTime ==
    (/\ probe.fn = "extract_cedula_from_filename"
     /\ \E i \in 1..Len(probe.runs) :
           /\ Len(probe.runs[i]) \in 8..12
           /\ ~CalendarDate(probe.runs[i])
           /\ ~ClockTime(probe.runs[i]))
      => /\ ~CalendarDate(probe.result)
         /\ ~ClockTime(probe.result)

DatePassedOverForLongRun ==
    /\ probe.fn = "extract_cedula_from_filename"
    /\ Len(probe.runs) = 2
    /\ CalendarDate(probe.runs[1])
    /\ Len(probe.runs[2]) = 12
    /\ probe.result = probe.runs[2]

\* The runs of the probed name that pass the date, time and length filters.
Surviving == Range(valid_cedulas(probe.runs))

\* The surviving runs of 8 to 10 digits.
SurvivingPreferred == {r \in Surviving : Len(r) \in 8..10}

EightDigitRunDiscardedIffCalendarDate ==
    (/\ probe.fn = "extract_cedula_from_filename"
     /\ Len(probe.runs) = 1
     /\ Len(probe.runs[1]) = 8)
      => /\ (probe.result = NotAvailable) <=> CalendarDate(probe.runs[1])
         /\ ~CalendarDate(probe.runs[1]) => probe.result = probe.runs[1]

\* --------------------------------------------- properties of the metadata cache

\* The last operation was a cached listing or search that returned.
CachedRead == last.op \in {"list", "find"} /\ ~last.raised

\* The entry the last operation found was at least CACHE_DURATION_MINUTES old.
FoundExpiredEntry ==
    /\ CachedRead
    /\ last.before.cached
    /\ last.at - last.before.timestamp >= CACHE_DURATION_MINUTES

\* What a fresh listing of the folder gives the last operation: for a search,
\* the names that contain the cedula.
FreshResult ==
    IF last.op = "find"
    THEN {f \in MetadataListing(ftp_files, last.folder) : Contains(f, last.arg)}
    ELSE MetadataListing(ftp_files, last.folder)

\* C12: a cached List or FindByOwner that finds a snapshot captured 5 minutes
\* ago or earlier does not return it: it performs a remote listing, and when
\* the listing succeeds it returns and stores what the store holds now; when
\* the listing fails it returns the empty result.
ExpiredSnapshotIsNeverServed ==
    FoundExpiredEntry =>
        /\ Len(calls) = 1
        /\ calls[1].op = "LIST"
        /\ calls[1].arg = last.folder
        /\ calls[1].ok =>
              /\ last.result = FreshResult
              /\ file_metadata_cache[last.folder] =
                    Entry(MetadataListing(ftp_files, last.folder), last.at)
        /\ ~calls[1].ok => last.result = {}

\* A listing at the very end of the window found a snapshot that no longer
\* matched the store and replaced it.
ExpiredSnapshotReplaced ==
    /\ FoundExpiredEntry
    /\ last.op = "list"
    /\ last.at - last.before.timestamp = CACHE_DURATION_MINUTES
    /\ Len(calls) = 1
    /\ calls[1].ok
    /\ last.before.files # last.result

\* The last operation was a single upload, rename, move or delete that
\* reported success.
SingleMutationSucceeded ==
    last.op \in {"upload", "rename", "move", "delete"} /\ last.ok

\* C13: when a single Upload, Rename, Move or Delete returns success, the
\* cache holds no entry for the folder it worked on nor, for Move, for the
\* destination folder.
SuccessfulMutationPurgesEntry ==
    SingleMutationSucceeded =>
        /\ ~file_metadata_cache[last.folder].cached
        /\ ~file_metadata_cache[last.target].cached

\* ------------------------------------------ properties of the batch of uploads

\* The last operation was a cached read of the folder that was answered from
\* the cache or from a listing that succeeded.
AnsweredRead(folder) ==
    /\ CachedRead
    /\ last.folder = folder
    /\ Len(calls) = 0 \/ calls[1].ok

\* C14: once an UploadMany has returned with a file uploaded to a folder, no
\* snapshot without that file is served: an entry of the folder holds the
\* file, a cached List that is answered returns it, and so does a cached
\* FindByOwner for an identifier the file's name contains.
UploadedFileIsNeverMissed ==
    \A folder \in Folders : \A f \in probe.returned[folder] :
        /\ file_metadata_cache[folder].cached => f \in file_metadata_cache[folder].files
        /\ (AnsweredRead(folder) /\ last.op = "list") => f \in last.result
        /\ (AnsweredRead(folder) /\ last.op = "find" /\ Contains(f, last.arg))
              => f \in last.result

\* The return of a batch purged the snapshot taken before it, and the search
\* that came next found the uploaded file.
FoundUploadedFileAfterPurge ==
    /\ probe.phase = "returned"
    /\ probe.purged
    /\ last.op = "find"
    /\ last.folder = probe.folder
    /\ \E f \in probe.returned[probe.folder] :
         f \in last.result /\ f \notin last.before.files

\* ------------------------------------------- properties of the batch requests

\* The request passed the checks made before any item is worked on.
RequestAccepted ==
    /\ probe.done
    /\ Len(probe.items) > 0
    /\ probe.fn = "delete_receipts_batch" \/ probe.folder \in Folders

\* The endpoint goes as far as the remote call for this item.
ReachesStore(item) ==
    IF probe.fn = "upload_multiple_receipts"
    THEN /\ EndsWith(Lower(item.filename), PDF)
         /\ extract_cedula_from_filename(item.filename) # NotAvailable
         /\ item.readable
    ELSE /\ Underscore(item.filename) > 0
         /\ IsFolderText(SplitId(item.filename).folder)
         /\ probe.fn = "move_receipts"
               => FolderNamed(SplitId(item.filename).folder) # probe.folder

\* The remote calls an item is due: one, and one more for an upload whose
\* first attempt fails.
DueCalls(item) ==
    IF ~ReachesStore(item) THEN 0
    ELSE IF probe.fn = "upload_multiple_receipts" /\ ~item.first THEN 2
    ELSE 1

RECURSIVE TotalDueCalls(_)
TotalDueCalls(items) ==
    IF Len(items) = 0 THEN 0 ELSE DueCalls(items[1]) + TotalDueCalls(Tail(items))

\* How many entries of a list of results name the item.
Naming(results, name) == Cardinality({i \in 1..Len(results) : results[i].item = name})

\* C15: an accepted UploadMany, DeleteMany or MoveMany over n items answers
\* 200 with successes + failures = n, every item named in exactly one of the
\* two lists as often as the request carries it, and every item that gets as
\* far as the store attempted there whatever happened to the items before it.
EveryItemEndsInOneList ==
    RequestAccepted =>
        /\ probe.response.status = 200
        /\ probe.response.total_succeeded + probe.response.total_failed = Len(probe.items)
        /\ \A i \in 1..Len(probe.items) :
             Naming(probe.response.succeeded, probe.items[i].filename)
                 + Naming(probe.response.failed, probe.items[i].filename)
               = Cardinality({j \in 1..Len(probe.items) :
                                probe.items[j].filename = probe.items[i].filename})
        /\ \A i \in 1..Len(probe.response.succeeded) : probe.response.succeeded[i].success
        /\ \A i \in 1..Len(probe.response.failed) : ~probe.response.failed[i].success
        /\ Len(calls) = TotalDueCalls(probe.items)

\* A deletion of six ids, one more than the pool's cap: the first is refused
\* by the server, the last, in the second batch, succeeds.
DeletionSucceedsAfterFailures ==
    /\ RequestAccepted
    /\ probe.fn = "delete_receipts_batch"
    /\ Len(probe.items) = DELETE_MAX_WORKERS + 1
    /\ probe.items[1].outcome = "refused"
    /\ probe.response.total_failed >= 2
    /\ probe.response.total_succeeded >= 2
    /\ probe.response.succeeded[probe.response.total_succeeded].item
         = probe.items[Len(probe.items)].filename
    /\ Len(calls) = TotalDueCalls(probe.items)
    /\ calls[Len(calls)].ok

\* The results of the remote attempts the items are due, in order: one for
\* an upload that succeeds at once, two for one whose first attempt fails.
RECURSIVE DueAttempts(_)
DueAttempts(items) ==
    IF Len(items) = 0 THEN <<>>
    ELSE (IF ~ReachesStore(items[1]) THEN <<>>
          ELSE IF items[1].first THEN <<TRUE>>
          ELSE <<FALSE, items[1].second>>) \o DueAttempts(Tail(items))

\* The names of a list of items, in order.
ItemNames(items) == [i \in 1..Len(items) |-> items[i].filename]

UploadSucceeds(item) == ReachesStore(item) /\ (item.first \/ item.second)

UploadFailsTwice(item) == ReachesStore(item) /\ ~item.first /\ ~item.second

\* C16: in an accepted UploadMany the remote attempts are exactly one for an
\* item whose first attempt succeeds and two for an item whose first attempt
\* fails; the items recorded as uploaded are those that succeeded at either
\* attempt, and the items recorded with the upload failure are those whose
\* two attempts failed.
UploadRetriedOnceAfterFailure ==
    (RequestAccepted /\ probe.fn = "upload_multiple_receipts") =>
        /\ [i \in 1..Len(calls) |-> calls[i].ok] = DueAttempts(probe.items)
        /\ [i \in 1..Len(probe.response.succeeded) |-> probe.response.succeeded[i].item]
             = ItemNames(SelectSeq(probe.items, UploadSucceeds))
        /\ LET remote == SelectSeq(probe.response.failed, LAMBDA r : r.error = "upload")
           IN  [i \in 1..Len(remote) |-> remote[i].item]
                 = ItemNames(SelectSeq(probe.items, UploadFailsTwice))

\* A request of four files: one is uploaded at the second attempt, one fails
\* both.
UploadWithRetries ==
    /\ RequestAccepted
    /\ probe.fn = "upload_multiple_receipts"
    /\ Len(probe.items) = UPLOAD_MAX_WORKERS + 1
    /\ \E i \in 1..Len(probe.items) :
         ReachesStore(probe.items[i]) /\ ~probe.items[i].first /\ probe.items[i].second
    /\ UploadFailsTwice(probe.items[Len(probe.items)])
    /\ probe.response.total_succeeded >= 1
    /\ \E i \in 1..Len(probe.response.failed) : probe.response.failed[i].error = "upload"
    /\ Len(calls) >= 4

\* The folders a request that has returned touched with an item that
\* succeeded: the folder of an upload, the folders the deleted or moved ids
\* are prefixed with, and the target of a move.
TouchedFolders ==
    {f \in Folders :
        /\ Len(probe.response.succeeded) > 0
        /\ \/ probe.fn \in {"upload_multiple_receipts", "move_receipts"} /\ f = probe.folder
           \/ /\ probe.fn \in {"delete_receipts_batch", "move_receipts"}
              /\ \E i \in 1..Len(probe.response.succeeded) :
                    SplitId(probe.response.succeeded[i].item).folder = FolderText[f]}

\* C28: when UploadMany, DeleteMany or MoveMany returns with at least one
\* item that succeeded, the cache holds no entry for any folder such an item
\* touched (the folder uploaded to, the folder of each deleted id, the source
\* of each moved id and the target of the move); when no item succeeded the
\* cache is what it was before the call.
BatchPurgesTouchedFolders ==
    probe.done
      => IF Len(probe.response.succeeded) > 0
         THEN \A f \in TouchedFolders : ~file_metadata_cache[f].cached
         ELSE file_metadata_cache = BatchCache

\* A move to "anteriores" with one id moved out of "recientes" and one that
\* failed has returned, and neither folder has an entry.
MoveClearedSourceAndTarget ==
    /\ probe.done
    /\ probe.fn = "move_receipts"
    /\ probe.folder = "anteriores"
    /\ probe.response.total_succeeded >= 1
    /\ probe.response.total_failed >= 1
    /\ TouchedFolders = Folders
    /\ \A f \in Folders : ~file_metadata_cache[f].cached

\* ------------------------------------- properties of the remote store's faults

ValidCedula(cedula) == Len(cedula) > 0 /\ IsDigitStr(cedula)

\* The read that has run met a fault of the remote store in the folder it
\* read, and was given arguments it accepts.
ReadMetFault ==
    /\ probe.done
    /\ \/ probe.fn = "list_files_in_directory" /\ probe.list_outcome # "ok"
       \/ /\ probe.fn = "find_files_by_cedula"
          /\ ValidCedula(probe.cedula)
          /\ probe.ftp[probe.folder] = "unreachable"

AnsweringFolders ==
    {f \in Folders : /\ probe.ftp[f] # "unreachable"
                     /\ ValidCedula(probe.cedula)
                     /\ FilterMatches(ftp_files[f], probe.cedula) # {}}

Supported(message) ==
    \/ message.type = "text" /\ message.body # <<>>
    \/ /\ message.type = "interactive" /\ message.interactive_type = "button_reply"
       /\ message.button_id # <<>>

\* C19: in a delivery the dialogue engine is called once for each text
\* message with a body and each button reply with an id, and not at all for
\* any other message.
EngineCalledOncePerSupportedMessage ==
    last.op = "webhook" =>
        /\ Len(last.invoked) = Len(last.payload)
        /\ \A i \in 1..Len(last.payload) :
              last.invoked[i] = IF Supported(last.payload[i]) THEN 1 ELSE 0

\* ------------------------------------------------------ properties of the menu

\* The option the menu reads in the last message.
LastOption == chosen_option(Strip(Lower(last.message)))

\* The last message reached the menu: the contact's row had no
\* conversation_state when it arrived.
HandledAtIdle == last.seen /\ last.row.state = NULL

\* C20: a message that arrives at Idle and selects the contact lines, the
\* data policy or the end of the subscription, or matches no option, leaves
\* conversation_state empty and conversation_data as it was; one that matches
\* no option is answered with the welcome menu.
TerminalOptionsKeepIdle ==
    (HandledAtIdle /\ LastOption \in {"1", "5", "6", NULL})
        => /\ conversation_state = NULL
           /\ conversation_data = last.row.data
           /\ LastOption = NULL
                => /\ Len(calls) = 1
                   /\ calls[1].op = "send_whatsapp_message"
                   /\ calls[1].arg = "WELCOME_MESSAGE"

\* The subscription was ended from the menu and the contact is still at Idle.
SubscriptionEndedAtIdle ==
    /\ HandledAtIdle /\ LastOption = "6"
    /\ last.row.is_active /\ ~is_active
    /\ conversation_state = NULL

\* ------------------------------------------- properties of the refused inputs

Validators ==
    {"validate_cedula_format", "is_cedula_registered", "validate_date_format",
     "validate_user_data"}

RepositoryCalls == {"find_files_by_cedula", "download_to_temp"}

Reprompts ==
    {"cedula_format_error", "cedula_not_registered", "date_format_error",
     "user_data_error"}

\* The last message was given to a validator of waiting_cedula or
\* waiting_date and the validator refused it.
RefusedByValidator ==
    /\ last.seen
    /\ last.row.state \in {"waiting_cedula", "waiting_date"}
    /\ \E i \in 1..Len(calls) : calls[i].op \in Validators /\ ~calls[i].ok

\* C21: in waiting_cedula and waiting_date an input that a validator refuses
\* (the format of the cedula, its presence in the registry, the format of the
\* date, the date against the registry) leaves conversation_state and the
\* stored cedula as they were, searches no folder and downloads nothing, and
\* is answered with the validator's prompt to enter the value again.
RefusedInputKeepsState ==
    RefusedByValidator
        => /\ conversation_state = last.row.state
           /\ conversation_data.cedula = last.row.data.cedula
           /\ \A i \in 1..Len(calls) : calls[i].op \notin RepositoryCalls
           /\ calls[Len(calls)].op = "send_whatsapp_message"
           /\ calls[Len(calls)].arg \in Reprompts

\* A date that does not match the registry was refused and the contact is
\* still asked for the date of the cedula it gave.
MismatchedDateRefused ==
    /\ last.seen /\ last.row.state = "waiting_date"
    /\ \E i \in 1..Len(calls) : calls[i].op = "validate_user_data" /\ ~calls[i].ok
    /\ conversation_state = "waiting_date"
    /\ conversation_data.cedula = <<"1", "2">>

\* ------------------------------------------- properties of the stored cedula

HoldsCedula == {"waiting_date", "waiting_receipt_selection"}

\* C22: while conversation_state is waiting_date or
\* waiting_receipt_selection, conversation_data holds a cedula of an active
\* registered user; it is the text accepted in waiting_cedula, and it stays
\* the same from one event to the next while the state stays in the two.
StoredCedulaIsTheAcceptedOne ==
    conversation_state \in HoldsCedula
        => /\ ~conversation_data.null
           /\ is_cedula_registered(payment_users, conversation_data.cedula).ok
           /\ (last.seen /\ last.row.state = "waiting_cedula")
                 => conversation_data.cedula = Strip(Lower(last.message))
           /\ (last.seen /\ last.row.state \in HoldsCedula)
                 => conversation_data.cedula = last.row.data.cedula

\* The options were sent and the row still holds the cedula given two
\* events earlier.
CedulaKeptIntoSelection ==
    /\ last.seen /\ last.row.state = "waiting_date"
    /\ conversation_state = "waiting_receipt_selection"
    /\ conversation_data.cedula = <<"1", "2">>
    /\ last.row.data.cedula = <<"1", "2">>

\* --------------------------------------- properties of the choice of a folder

\* The last message arrived in waiting_receipt_selection and was neither a
\* choice nor a cancel keyword.
OtherAnswerToOptions ==
    /\ last.seen
    /\ last.row.state = "waiting_receipt_selection"
    /\ Strip(Lower(last.message)) \notin {<<"1">>, <<"2">>}
    /\ Strip(Lower(last.message)) \notin cancel_keywords

\* C23: in waiting_receipt_selection an input other than "1", "2" and the
\* cancel keywords leaves conversation_state and conversation_data as they
\* were; the only call made is the send of the prompt to answer "1" or "2":
\* no folder is searched, nothing is downloaded and no document is sent.
OtherAnswerIsRepromptedInPlace ==
    OtherAnswerToOptions
        => /\ conversation_state = "waiting_receipt_selection"
           /\ conversation_data = last.row.data
           /\ Len(calls) = 1
           /\ calls[1].op = "send_whatsapp_message"
           /\ calls[1].arg = "selection_reprompt"

\* A text that holds both digits was answered with the prompt and the
\* options stay open.
TwoDigitAnswerReprompted ==
    /\ OtherAnswerToOptions
    /\ last.message = <<"1", "2">>
    /\ conversation_state = "waiting_receipt_selection"
    /\ conversation_data.receipts_found

\* ----------------------------------------- properties of the worker threads

\* The caps the endpoints are documented with.
DocumentedCap(op) ==
    CASE op = "upload" -> 3
      [] op = "delete" -> 5
      [] op = "move"   -> 4

\* min(item count, cap) of the call that is followed.
SessionLimit ==
    IF probe.n < DocumentedCap(probe.op) THEN probe.n ELSE DocumentedCap(probe.op)

\* C26: during one batch call the sessions with the remote store that are
\* open or being opened at the same time never number more than
\* min(item count, cap), the cap being 3 for the uploads, 5 for the
\* deletions and 4 for the moves; second attempts of an upload count too.
SessionsWithinCap ==
    probe.fn = "batch" => Cardinality(RunningJobs) <= SessionLimit

\* Three uploads hold a session at once and one of them is a second attempt.
ThreeSessionsOneOfThemARetry ==
    /\ probe.fn = "batch"
    /\ probe.op = "upload"
    /\ Cardinality({k \in 1..probe.n : probe.item[k].at = "open"}) = 3
    /\ \E k \in 1..probe.n : probe.item[k].at = "open" /\ probe.item[k].attempts = 2

\* The batch an item belongs to, the batches counted from 1.
BatchOf(k) == ((k - 1) \div SessionLimit) + 1

TotalBatches == BatchOf(probe.n)

\* The batches every item of which has its final outcome.
FinishedBatches ==
    {b \in 1..TotalBatches :
        \A k \in 1..probe.n : BatchOf(k) = b => probe.item[k].at = "final"}

\* The batches an item of which has started.
StartedBatches ==
    {b \in 1..TotalBatches :
        \E k \in 1..probe.n : BatchOf(k) = b /\ probe.item[k].at # "idle"}

\* C27: the items are worked in consecutive batches of min(item count, cap)
\* items in input order: no item of a later batch starts before every item
\* of the earlier batches has its final outcome, one pause has been taken
\* for every batch left behind, none is taken after the last batch, and at
\* the return every item is final.
BatchesInTurnWithPauseBetween ==
    probe.fn = "batch"
      => /\ \A a, b \in 1..probe.n :
               (BatchOf(a) < BatchOf(b) /\ probe.item[b].at # "idle")
                 => probe.item[a].at = "final"
         /\ \A b \in StartedBatches : probe.slept >= b - 1
         /\ probe.slept <= Cardinality(FinishedBatches)
         /\ probe.slept <= TotalBatches - 1
         /\ probe.phase = "return"
              => /\ probe.slept = TotalBatches - 1
                 /\ \A k \in 1..probe.n : probe.item[k].at = "final"

\* A call of two batches has returned after a single pause.
ReturnedAfterOnePause ==
    /\ probe.fn = "batch"
    /\ probe.phase = "return"
    /\ TotalBatches = 2
    /\ probe.slept = 1
    /\ \E k \in 1..probe.n : BatchOf(k) = 2 /\ probe.item[k].success

\* ------------------------------------------------ properties of the session

\* C29: every operation of the repository makes the session it uses, and
\* once the operation has returned or raised, after its command succeeded,
\* after its command failed or after the connection failed, the session is
\* not open; a session is open only between the connect and the end of the
\* finally clause of the operation that made it.
NoSessionOutlivesItsOperation ==
    probe.fn = "session"
      => /\ probe.at = "finished" => probe.sock # "open"
         /\ probe.at = "called" => probe.sock = "none"
         /\ probe.sock = "open" => probe.at \in {"connected", "yielded", "exiting", "quit_raised"}

\* A command failed inside the with block of delete_file and the operation
\* returned its failure with the session closed.
ClosedAfterFailedCommandAndQuit ==
    /\ probe.fn = "session"
    /\ probe.op = "delete_file"
    /\ probe.at = "finished"
    /\ probe.cause = "command"
    /\ probe.exit = "returned_failure"
    /\ probe.sock = "closed"

\* -------------------------------------------- properties of a search's order

\* C30: find_files_by_cedula returns its matches in increasing order of
\* filename on every path, with names only (pattern or full listing) and
\* with metadata (fresh or cached), so that the first match is the smallest
\* matching filename.
SearchResultIsSorted ==
    (probe.fn = "find_files_by_cedula" /\ probe.done /\ ~probe.raised)
      => /\ \A i, j \in 1..Len(probe.result) :
               i < j => StrLess(probe.result[i], probe.result[j])
         /\ \A i \in 2..Len(probe.result) :
               StrLess(probe.result[1], probe.result[i])

\* The PDF files of the searched folder whose name contains the cedula.
PdfFilesOfOwner ==
    {f \in ftp_files["recientes"] : EndsWith(Lower(f), PDF) /\ Contains(f, probe.cedula)}

\* C31: for the same folder and the same cedula, find_files_by_cedula by
\* names returns the same files whether the server accepts the pattern or
\* rejects it: in both cases exactly the PDF files of the folder whose name
\* contains the cedula.
PatternAndFallbackAgree ==
    (/\ probe.fn = "find_files_by_cedula"
     /\ probe.done
     /\ ~probe.with_metadata
     /\ probe.outcome \in {"ok", "glob_rejected"})
      => /\ ~probe.raised
         /\ Range(probe.result) = PdfFilesOfOwner
         /\ \A o \in {"ok", "glob_rejected"} :
               Range(find_files_by_cedula(ftp_files, "recientes", probe.cedula, o).result)
                 = Range(probe.result)

\* ----------------------------------------- properties of the temporary file

\* C32: when the handling of a choice of folder is through, no temporary
\* file is left: the file a download made has been removed whether the send
\* of the document succeeded or failed, and a download that failed has left
\* none.
NoTemporaryFileOutlivesTheChoice ==
    (probe.fn = "send_selected_receipt" /\ probe.at = "returned") => probe.temp = {}

\* A file was downloaded, the send of the document failed, and the file is
\* gone when the handler is through.
TempRemovedAfterFailedSend ==
    /\ probe.fn = "send_selected_receipt"
    /\ probe.at = "returned"
    /\ probe.made
    /\ ~probe.success
    /\ ~probe.ok
    /\ probe.temp = {}
    /\ conversation_state = NULL

\* -------------------------------------- properties of a stored context in error

\* C38: in waiting_date, when the stored data holds no cedula, a message
\* that is a well-formed date of the calendar resets the conversation:
\* conversation_state and conversation_data are cleared and the reply is the
\* process error; the contact is not left in waiting_date.
DateWithoutCedulaResets ==
    (/\ last.seen
     /\ last.row.state = "waiting_date"
     /\ Len(last.row.data.cedula) = 0
     /\ validate_date_format(Strip(Lower(last.message))).ok)
      => /\ conversation_state = NULL
         /\ conversation_data = NoData
         /\ Len(calls) > 0
         /\ calls[Len(calls)].op = "send_whatsapp_message"
         /\ calls[Len(calls)].arg = "process_error"

\* ------------------------------------------- properties of the active flag

\* C37: a message that arrives while conversation_state is set is not read
\* against the options of the menu: no step of the receipt conversation
\* changes is_active, which changes only when the end of the subscription is
\* chosen at Idle, and then to FALSE.
ActiveFlagChangesOnlyAtIdle ==
    last.seen
      => /\ last.row.state # NULL => is_active = last.row.is_active
         /\ is_active # last.row.is_active
              => /\ last.row.state = NULL
                 /\ LastOption = "6"
                 /\ ~is_active

\* "6" arrived in waiting_cedula: it was read as a cedula, the contact is
\* still active and still in waiting_cedula.
SixReadAsCedula ==
    /\ last.seen
    /\ last.row.state = "waiting_cedula"
    /\ last.message = <<"6">>
    /\ last.row.is_active
    /\ is_active
    /\ conversation_state = "waiting_cedula"
    /\ \E i \in 1..Len(calls) : calls[i].op = "validate_cedula_format"

\* ------------------------------------------- properties of a failed listing

\* The last operation was a cached List whose remote LIST failed.
ListingFailed ==
    /\ last.op = "list"
    /\ calls = <<Call("LIST", last.folder, FALSE)>>

\* C36: a cached List whose remote listing fails returns the empty list and
\* leaves the folder's cache entry exactly as it found it: no empty snapshot
\* is stored, and an entry that was there keeps its files and its timestamp.
FailedListingLeavesCache ==
    ListingFailed =>
        /\ last.result = {}
        /\ ~last.raised
        /\ file_metadata_cache[last.folder] = last.before

\* A failed listing found an expired snapshot with files in it, and the
\* snapshot is still in the cache with its old timestamp.
ExpiredSnapshotSurvivesFailure ==
    /\ ListingFailed
    /\ last.before.cached
    /\ last.before.files # {}
    /\ last.at - last.before.timestamp >= CACHE_DURATION_MINUTES
    /\ last.result = {}
    /\ file_metadata_cache[last.folder] = last.before

\* ------------------------------------------ properties of an uploaded name

\* C39: a file whose name gave a cedula at the upload is listed, under the
\* name it was stored with, with that same cedula.
RenamingPreservesOwner ==
    probe.fn = "listed" =>
        \A i \in 1..Len(probe.response.succeeded) : \A r \in probe.receipts :
            r.nombre = probe.response.succeeded[i].filename
                => r.cedula = probe.response.succeeded[i].cedula

\* ------------------------- properties of a listing beside a batch of uploads

\* C35: once the upload has returned and no listing is under way, the
\* folder's cache entry, when there is one, holds the names the folder holds:
\* a snapshot read before an upload of the batch is not in the cache after
\* the batch's invalidation, and the next cached List shows the uploads.
NoSnapshotInstalledAfterInvalidation ==
    (probe.upload = "returned" /\ probe.listing \in {"idle", "done"}) =>
        (file_metadata_cache["recientes"].cached =>
            file_metadata_cache["recientes"].files = MetadataListing(ftp_files, "recientes"))

\* A listing read the folder before a job of the batch stored its file and
\* installed what it read; the batch returned after it and cleared the entry.
StaleSnapshotCleared ==
    /\ probe.upload = "returned"
    /\ probe.listing = "done"
    /\ probe.fresh
    /\ probe.result = probe.snapshot
    /\ probe.snapshot # MetadataListing(ftp_files, "recientes")
    /\ Len(UploadResponse(probe.results).succeeded) > 0
    /\ ~file_metadata_cache["recientes"].cached

\* ---------------------------------- properties of the owner of a sent receipt

\* The positions of the last event's calls that send a document.
DocumentCalls == {i \in 1..Len(calls) : calls[i].op = "send_whatsapp_document"}

\* C33: a document is sent only in a conversation in which an identifier
\* and a date of the contact passed validate_user_data since the contact
\* left the menu, and the search that chose the document, made in the same
\* event, looked in the document's folder for exactly that identifier.
DocumentOnlyAfterValidation ==
    \A i \in DocumentCalls :
        /\ probe.was # <<>>
        /\ last.row.state = "waiting_receipt_selection"
        /\ last.row.data.cedula = probe.was
        /\ \E j \in 1..(i - 1) :
              /\ calls[j].op = "find_files_by_cedula"
              /\ calls[j].arg = <<calls[i].arg[1], probe.was>>
        /\ \A j \in 1..Len(calls) :
              calls[j].op = "find_files_by_cedula" => calls[j].arg[2] = probe.was
        /\ Contains(calls[i].arg[2], probe.was)

\* The contact validated 12345678 and was sent a receipt of the folder of
\* their choice.
ValidatedContactServed ==
    /\ DocumentCalls # {}
    /\ probe.was = NumText(12345678)
    /\ \A i \in DocumentCalls : calls[i].ok /\ calls[i].arg[2] = NumText(12345678) \o PDF
    /\ conversation_state = NULL

\* C34: the identifier the extractor reads from the name of a sent document
\* is the identifier that passed validation.
SentDocumentBelongsToContact ==
    \A i \in DocumentCalls :
        extract_cedula_from_filename(calls[i].arg[2]) = probe.was

====
